---- MODULE Spec2Model ----
(***************************************************************************)
(* Question acquisition and cache orchestration of Elements of Truth      *)
(* (static/script.js): the IndexedDB question pool, the seen-question      *)
(* tracker in localStorage, the prefetch controller of the setup page and  *)
(* the three-tier acquisition of initLoading.                              *)
(*                                                                         *)
(* Strings that the code hashes or compares as ids are sequences of        *)
(* character codes; category names, pool keys and status texts are TLA+    *)
(* strings.  A nullable value is a sequence of length 0 (null, absent) or  *)
(* 1 (the value).                                                          *)
(***************************************************************************)
EXTENDS Integers, Sequences, FiniteSets, TLC

----------------------------------------------------------------------------
(* Bounds of the model *)

MaxGames == 2          \* game starts (start clicks) explored
MaxPrefetch == 2       \* prefetch requests dispatched per visit of the setup page
MaxTicks == 1          \* clock advances explored
MaxAdds == 2           \* add calls explored by SpecPool
MaxMarks == 2          \* markSeen calls explored by SpecSeen
MaxSeenTicks == 2      \* clock advances explored by SpecSeen
NumShuffles == 2       \* outcomes of Math.random explored per shuffle
CatalogSize == 120     \* questions the remote generator can produce per setting

----------------------------------------------------------------------------
(* Program constants *)

MAX_SIZE == 100
REFRESH_THRESHOLD == 5
EXPIRY_DAYS == 7
requiredCount == 10
SEEN_KEEP == 200
DayMs == 24 * 60 * 60 * 1000
SEEN_QUESTIONS_EXPIRY == 24 * 60 * 60 * 1000
PREFETCH_MAX_AGE == 5 * 60 * 1000

Categories == <<"General Knowledge", "Science">>
Difficulties == <<"Medium", "Hard">>
CategorySet == {Categories[i] : i \in DOMAIN Categories}
DifficultySet == {Difficulties[i] : i \in DOMAIN Difficulties}

NULL == <<>>
Some(v) == <<v>>
Min(a, b) == IF a < b THEN a ELSE b

----------------------------------------------------------------------------
(* Sequence helpers standing for Array.prototype methods *)

\* array.slice(-n)
SliceLast(s, n) == IF Len(s) <= n THEN s ELSE SubSeq(s, Len(s) - n + 1, Len(s))

\* array.slice(0, n)
SliceFirst(s, n) == SubSeq(s, 1, Min(n, Len(s)))

\* array.map(q => q._id)
MapId(qs) == [i \in 1..Len(qs) |-> qs[i]._id]

\* array.filter(id => id): the empty string and a missing property are falsy
FilterTruthy(ids) == SelectSeq(ids, LAMBDA id : id # <<>>)

Range(s) == {s[i] : i \in 1..Len(s)}

\* [...new Set(array)]: the first occurrence of each value, in order
Uniq(s) ==
    LET indexed == [i \in 1..Len(s) |-> <<i, s[i]>>]
        first == SelectSeq(indexed, LAMBDA p : \A j \in 1..(p[1] - 1) : s[j] # p[2])
    IN  [i \in 1..Len(first) |-> first[i][2]]

----------------------------------------------------------------------------
(* generateQuestionId: a 32-bit string hash, printed in hexadecimal.       *)
(* A 32-bit value is kept as two 16-bit halves <<hi, lo>>.                 *)

\* hash = ((hash << 5) - hash) + char; hash = hash & hash
HashStep(h, char) ==
    LET t == 31 * h[2] + char
    IN  <<(31 * h[1] + t \div 65536) % 65536, t % 65536>>

RECURSIVE HashLoop(_, _)
HashLoop(h, content) ==
    IF content = <<>> THEN h
    ELSE HashLoop(HashStep(h, Head(content)), Tail(content))

\* Math.abs of the signed 32-bit value, as an unsigned magnitude
Abs32(h) ==
    IF h[1] < 32768 THEN h
    ELSE <<(65535 - h[1] + (IF h[2] = 0 THEN 1 ELSE 0)) % 65536,
           (65536 - h[2]) % 65536>>

HexChar(v) == IF v < 10 THEN 48 + v ELSE 87 + v

Hex4(x) == <<HexChar(x \div 4096), HexChar((x \div 256) % 16),
             HexChar((x \div 16) % 16), HexChar(x % 16)>>

RECURSIVE StripZeros(_)
StripZeros(s) ==
    IF Len(s) > 1 /\ Head(s) = 48 THEN StripZeros(Tail(s)) ELSE s

\* Number.prototype.toString(16)
ToString16(h) == StripZeros(Hex4(h[1]) \o Hex4(h[2]))

\* JSON.stringify of an options object, given as its entries <<key, text>> in
\* insertion order: {"key":"text","key":"text"}
RECURSIVE StringifyEntries(_, _)
StringifyEntries(options, i) ==
    IF i > Len(options) THEN <<>>
    ELSE (IF i > 1 THEN <<44>> ELSE <<>>)
         \o <<34>> \o options[i][1] \o <<34, 58, 34>> \o options[i][2] \o <<34>>
         \o StringifyEntries(options, i + 1)

JSONstringify(options) == <<123>> \o StringifyEntries(options, 1) \o <<125>>

\* variant: the hash covers the correct answer as well
generateQuestionId_withCorrect(question) ==
    LET content == question.question \o JSONstringify(question.options)
                       \o question.correct
    IN  SliceFirst(ToString16(Abs32(HashLoop(<<0, 0>>, content))), 12)

generateQuestionId(question) ==
    LET content == question.question \o JSONstringify(question.options)
    IN  SliceFirst(ToString16(Abs32(HashLoop(<<0, 0>>, content))), 12)

----------------------------------------------------------------------------
(* The remote generator's catalogue: the n-th question it can produce for  *)
(* a setting.  Every third question comes without an _id.                  *)

IndexOf(seq, v) == CHOOSE i \in DOMAIN seq : seq[i] = v

Digits3(n) == <<48 + ((n \div 100) % 10), 48 + ((n \div 10) % 10), 48 + (n % 10)>>

ServerQuestion(category, difficulty, n) ==
    LET tag == <<64 + IndexOf(Categories, category),
                 64 + IndexOf(Difficulties, difficulty)>>
    IN  [_id |-> IF n % 3 = 0 THEN <<>> ELSE <<115>> \o tag \o Digits3(n),
         question |-> tag \o Digits3(n),
         options |-> <<>>,
         correct |-> <<65>>]

\* the id under which the client knows a question
EffectiveId(q) == IF q._id # <<>> THEN q._id ELSE generateQuestionId(q)

ServerRange(category, difficulty, from, to) ==
    [i \in 1..(to - from + 1) |-> ServerQuestion(category, difficulty, from + i - 1)]

----------------------------------------------------------------------------
(* Question pool (IndexedDB store question_pool)                           *)

getPoolKey(category, difficulty) == category \o "_" \o difficulty

PoolKeys == {getPoolKey(c, d) : c \in CategorySet, d \in DifficultySet}

\* getPoolData: request.result || null
getPoolData(poolStore, category, difficulty) ==
    poolStore[getPoolKey(category, difficulty)]

\* savePoolData: store.put({key, questions, lastUpdated: Date.now()})
savePoolData(poolStore, category, difficulty, questions, t) ==
    [poolStore EXCEPT ![getPoolKey(category, difficulty)] =
        Some([key |-> getPoolKey(category, difficulty),
              questions |-> questions,
              lastUpdated |-> t])]

getPoolSize(poolStore, category, difficulty) ==
    LET data == getPoolData(poolStore, category, difficulty)
    IN  IF data # NULL THEN Len(data[1].questions) ELSE 0

poolNeedsRefresh(poolStore, category, difficulty) ==
    getPoolSize(poolStore, category, difficulty) < REFRESH_THRESHOLD

\* Math.floor(Math.random() * (i + 1)) for the i-th step (1-based position i,
\* result in 1..i) of the k-th explored random sequence
RandomIndex(k, i) == (((k - 1) * (i - 1)) % i) + 1

Swap(array, i, j) == [array EXCEPT ![i] = array[j], ![j] = array[i]]

\* the iterations i = hi, hi - 1, ..., lo of the loop of shuffleArray (the range
\* is run in two halves and the array is looked at on entry, so that the depth
\* of the evaluation stays small)
RECURSIVE ShuffleLoop(_, _, _, _)
ShuffleLoop(array, hi, lo, k) ==
    IF Len(array) < 2 \/ hi < lo THEN array
    ELSE IF hi = lo THEN Swap(array, hi, RandomIndex(k, hi))
    ELSE LET mid == (hi + lo) \div 2
         IN  ShuffleLoop(ShuffleLoop(array, hi, mid + 1, k), mid, lo, k)

\* Fisher-Yates, driven by the k-th random sequence
shuffleArray(array, k) == ShuffleLoop(array, Len(array), 2, k)

\* variant: nothing is filtered out
Available_all(questions, excludeIds) == questions

Available(questions, excludeIds) ==
    LET excludeSet == Range(excludeIds)
    IN  SelectSeq(questions, LAMBDA q : q._id \notin excludeSet)

\* variant: no expiry test
getQuestionsFromPool_noExpiry(poolStore, category, difficulty, count, excludeIds, t, k) ==
    LET data == getPoolData(poolStore, category, difficulty)
    IN  IF data = NULL \/ Len(data[1].questions) = 0 THEN <<>>
        ELSE SliceFirst(shuffleArray(Available(data[1].questions, excludeIds), k), count)

\* variant: nothing is returned when fewer than count questions are available
getQuestionsFromPool_strict(poolStore, category, difficulty, count, excludeIds, t, k) ==
    LET data == getPoolData(poolStore, category, difficulty)
    IN  IF data = NULL \/ Len(data[1].questions) = 0 THEN <<>>
        ELSE IF t - data[1].lastUpdated > EXPIRY_DAYS * 24 * 60 * 60 * 1000 THEN <<>>
        ELSE IF Len(Available(data[1].questions, excludeIds)) < count THEN <<>>
        ELSE SliceFirst(shuffleArray(Available(data[1].questions, excludeIds), k), count)

\* getQuestionsFromPool with slice(0, count - 1)
getQuestionsFromPool_short(poolStore, category, difficulty, count, excludeIds, t, k) ==
    LET data == getPoolData(poolStore, category, difficulty)
    IN  IF data = NULL \/ Len(data[1].questions) = 0 THEN <<>>
        ELSE IF t - data[1].lastUpdated > EXPIRY_DAYS * 24 * 60 * 60 * 1000 THEN <<>>
        ELSE SliceFirst(shuffleArray(Available(data[1].questions, excludeIds), k), count - 1)

getQuestionsFromPool(poolStore, category, difficulty, count, excludeIds, t, k) ==
    LET data == getPoolData(poolStore, category, difficulty)
    IN  IF data = NULL \/ Len(data[1].questions) = 0 THEN <<>>
        ELSE IF t - data[1].lastUpdated > EXPIRY_DAYS * 24 * 60 * 60 * 1000 THEN <<>>
        ELSE SliceFirst(shuffleArray(Available(data[1].questions, excludeIds), k), count)

\* variant: the drawn questions are taken out of the entry, which is saved
PoolAfterDraw_consume(poolStore, category, difficulty, count, excludeIds, t, k) ==
    LET data == getPoolData(poolStore, category, difficulty)
        drawn == getQuestionsFromPool(poolStore, category, difficulty, count,
                                      excludeIds, t, k)
    IN  IF drawn = <<>> THEN poolStore
        ELSE savePoolData(poolStore, category, difficulty,
                          SelectSeq(data[1].questions,
                                    LAMBDA q : q \notin Range(drawn)), t)

\* the pool store after getQuestionsFromPool: the function reads the entry in
\* a readonly transaction, filter copies the list before the shuffle, and
\* nothing is put
PoolAfterDraw(poolStore, category, difficulty, count, excludeIds, t, k) ==
    poolStore

\* the for loop of addQuestionsToPool over newQuestions[i..]; acc carries the
\* stored list, the id set and the (mutated) objects of newQuestions
RECURSIVE AddLoop(_, _, _)
AddLoop(acc, newQuestions, i) ==
    IF i > Len(newQuestions) THEN acc
    ELSE LET q == newQuestions[i]
         IN  IF q._id # <<>> /\ q._id \notin acc.existingIds
             THEN AddLoop([existingQuestions |-> Append(acc.existingQuestions, q),
                           existingIds |-> acc.existingIds \cup {q._id},
                           newQuestions |-> Append(acc.newQuestions, q)],
                          newQuestions, i + 1)
             ELSE IF q._id = <<>>
             THEN LET g == [q EXCEPT !._id = generateQuestionId(q)]
                  IN  IF g._id \notin acc.existingIds
                      THEN AddLoop([existingQuestions |-> Append(acc.existingQuestions, g),
                                    existingIds |-> acc.existingIds \cup {g._id},
                                    newQuestions |-> Append(acc.newQuestions, g)],
                                   newQuestions, i + 1)
                      ELSE AddLoop([acc EXCEPT !.newQuestions = Append(@, g)],
                                   newQuestions, i + 1)
             ELSE AddLoop([acc EXCEPT !.newQuestions = Append(@, q)],
                          newQuestions, i + 1)

\* variant: trims to the oldest questions
TrimToMax_keepOldest(existingQuestions) ==
    IF Len(existingQuestions) > MAX_SIZE
    THEN SliceFirst(existingQuestions, MAX_SIZE)
    ELSE existingQuestions

\* variant: trims to one question more than MAX_SIZE
TrimToMax_offByOne(existingQuestions) ==
    IF Len(existingQuestions) > MAX_SIZE
    THEN SliceLast(existingQuestions, MAX_SIZE + 1)
    ELSE existingQuestions

\* Trim to max size (keep newest)
TrimToMax(existingQuestions) ==
    IF Len(existingQuestions) > MAX_SIZE
    THEN SliceLast(existingQuestions, MAX_SIZE)
    ELSE existingQuestions

\* variant: existingIds starts empty instead of holding the stored ids
MergeIntoPool_noSeed(existingQuestions, newQuestions) ==
    LET r == AddLoop([existingQuestions |-> existingQuestions,
                      existingIds |-> {},
                      newQuestions |-> <<>>],
                     newQuestions, 1)
    IN  [questions |-> TrimToMax(r.existingQuestions), newQuestions |-> r.newQuestions]

\* variant: every question of the list is appended, stored already or not
MergeIntoPool_append(existingQuestions, newQuestions) ==
    LET r == AddLoop([existingQuestions |-> <<>>,
                      existingIds |-> {},
                      newQuestions |-> <<>>],
                     newQuestions, 1)
    IN  [questions |-> TrimToMax(existingQuestions \o r.newQuestions),
         newQuestions |-> r.newQuestions]

\* the list addQuestionsToPool saves, and newQuestions as it leaves them
MergeIntoPool(existingQuestions, newQuestions) ==
    LET r == AddLoop([existingQuestions |-> existingQuestions,
                      existingIds |-> Range(FilterTruthy(MapId(existingQuestions))),
                      newQuestions |-> <<>>],
                     newQuestions, 1)
    IN  [questions |-> TrimToMax(r.existingQuestions), newQuestions |-> r.newQuestions]

\* addQuestionsToPool: the pool store after the call, and newQuestions after it
\* variant: the merged list is not saved
addQuestionsToPool_noSave(poolStore, category, difficulty, newQuestions, t) ==
    LET data == getPoolData(poolStore, category, difficulty)
        existingQuestions == IF data # NULL THEN data[1].questions ELSE <<>>
        m == MergeIntoPool(existingQuestions, newQuestions)
    IN  [pool |-> poolStore,
         newQuestions |-> m.newQuestions]

addQuestionsToPool(poolStore, category, difficulty, newQuestions, t) ==
    LET data == getPoolData(poolStore, category, difficulty)
        existingQuestions == IF data # NULL THEN data[1].questions ELSE <<>>
        m == MergeIntoPool(existingQuestions, newQuestions)
    IN  [pool |-> savePoolData(poolStore, category, difficulty, m.questions, t),
         newQuestions |-> m.newQuestions]

----------------------------------------------------------------------------
(* Seen tracker (localStorage key eot_seen_questions)                      *)

SeenExpired(record, t) == record # NULL /\ t - record[1].timestamp > SEEN_QUESTIONS_EXPIRY

\* getSeenQuestionIds: the returned list
getSeenQuestionIds(record, t) ==
    IF record = NULL THEN <<>>
    ELSE IF SeenExpired(record, t) THEN <<>>
    ELSE record[1].ids

\* variant: the stale record stays in localStorage
SeenAfterRead_keep(record, t) == record

\* getSeenQuestionIds: localStorage after the read (a stale record is removed)
SeenAfterRead(record, t) == IF SeenExpired(record, t) THEN NULL ELSE record

\* variant: the first SEEN_KEEP ids are kept
addSeenQuestionIds_keepOldest(record, questions, t) ==
    LET existing == getSeenQuestionIds(record, t)
        newIds == FilterTruthy(MapId(questions))
        allIds == Uniq(existing \o newIds)
        trimmedIds == SliceFirst(allIds, SEEN_KEEP)
    IN  Some([ids |-> trimmedIds, timestamp |-> t])

\* variant: a record that is read keeps its timestamp
addSeenQuestionIds_keepStamp(record, questions, t) ==
    LET existing == getSeenQuestionIds(record, t)
        newIds == FilterTruthy(MapId(questions))
        allIds == Uniq(existing \o newIds)
        trimmedIds == SliceLast(allIds, SEEN_KEEP)
    IN  Some([ids |-> trimmedIds,
              timestamp |-> IF existing # <<>> THEN record[1].timestamp ELSE t])

addSeenQuestionIds(record, questions, t) ==
    LET existing == getSeenQuestionIds(record, t)
        newIds == FilterTruthy(MapId(questions))
        allIds == Uniq(existing \o newIds)
        trimmedIds == SliceLast(allIds, SEEN_KEEP)
    IN  Some([ids |-> trimmedIds, timestamp |-> t])

----------------------------------------------------------------------------
(* Per-game store (IndexedDB store questions, keyPath id)                  *)

\* q.id = index + 1
WithRound(q, round) ==
    [_id |-> q._id, question |-> q.question, options |-> q.options,
     correct |-> q.correct, id |-> round]

\* variant: nothing is cleared
clearGameQuestions_keep(store) == store

\* store.clear()
clearGameQuestions(store) == <<>>

\* storeQuestions: questions.forEach((q, index) => { q.id = index + 1; store.put(q) })
storeQuestions(store, list) ==
    [round \in (DOMAIN store) \cup (1..Len(list)) |->
        IF round <= Len(list) THEN WithRound(list[round], round) ELSE store[round]]

\* getQuestion(index): request.result, undefined when the key is absent
getQuestion(store, index) ==
    IF index \in DOMAIN store THEN Some(store[index]) ELSE NULL

----------------------------------------------------------------------------
(* The remote generator POST /api/generate_question, at its interface: a   *)
(* list of at most count questions outside exclude_ids, an error payload,  *)
(* or a transport failure.                                                 *)

RemoteOffsets == {1}
RemoteLens == {0, 9, 10}
RemoteErrors == {"Quota exceeded"}

\* the first len questions of the catalogue, from the n-th on, outside exclude_ids
TakeFrom(category, difficulty, n, len, exclude_ids) ==
    LET last == Min(CatalogSize, n + len + Len(exclude_ids) - 1)
        rest == IF n > last THEN <<>>
                ELSE ServerRange(category, difficulty, n, last)
        allowed == SelectSeq(rest, LAMBDA q : EffectiveId(q) \notin Range(exclude_ids))
    IN  SliceFirst(allowed, len)

ListAnswer(data) == [kind |-> "list", data |-> data, error |-> ""]
ErrorAnswer(msg) == [kind |-> "error", data |-> <<>>, error |-> msg]
TransportFailure == [kind |-> "fail", data |-> <<>>, error |-> "Failed to fetch"]

RemoteAnswers(request) ==
    {ListAnswer(TakeFrom(request.category, request.difficulty, offset,
                         Min(len, request.count), request.exclude_ids)) :
        offset \in RemoteOffsets, len \in RemoteLens}
    \cup {ErrorAnswer(msg) : msg \in RemoteErrors}
    \cup {TransportFailure}

----------------------------------------------------------------------------
(* State *)

VARIABLES
    page,                 \* window.location.pathname: landing, setup, loading, game
    now,                  \* Date.now()
    config,               \* state.config, persisted in localStorage eot_state
    selection,            \* values of category-select and difficulty-select
    prefetchedQuestions,  \* prefetch controller: the held result, or null
    prefetchPromise,      \* prefetch controller: a promise exists
    prefetchCategory,     \* prefetch controller: settings of the last dispatch
    prefetchDifficulty,
    inflight,             \* prefetch requests without a response yet
    eot_prefetched,       \* sessionStorage item eot_prefetched
    eot_seen_questions,   \* localStorage item eot_seen_questions
    pool,                 \* IndexedDB store question_pool, by key
    gameQuestions,        \* IndexedDB store questions, by round
    pc,                   \* position of initLoading
    status,               \* text of #loading-status
    loading,              \* locals of initLoading while it awaits the remote call
    acq,                  \* history of the current acquisition
    held,                 \* history: the request whose response is held
    dispatched,           \* history: prefetch requests dispatched on this setup page
    failed,               \* history: the requests of this setup page that ended in failure
    games,                \* history: start clicks so far
    ticketGame,           \* history: the start click that wrote eot_prefetched last, 0 if none
    ticks,                \* history: clock advances so far
    insertLog,            \* history: ids in the order they entered the pool entry
    lastAdd,              \* history: the last add call of SpecPool
    lastDraw,             \* history: the last draw call of SpecPool
    seenLog,              \* history: ids in the order they entered the seen list
    lastMark,             \* history: the last markSeen call of SpecSeen
    lastRead,             \* history: the last getSeenIds call of SpecSeen
    lastTrigger,          \* history: the last prefetch trigger of SpecPrefetch
    game                  \* state.players and the round state of eot_state, and the game page

vars == <<page, now, config, selection, prefetchedQuestions, prefetchPromise,
          prefetchCategory, prefetchDifficulty, inflight, eot_prefetched,
          eot_seen_questions, pool, gameQuestions, pc, status, loading, acq,
          held, dispatched, failed, games, ticketGame, ticks, insertLog, lastAdd, lastDraw, seenLog,
          lastMark, lastRead, lastTrigger, game>>

controllerVars == <<prefetchedQuestions, prefetchPromise, prefetchCategory,
                    prefetchDifficulty, inflight, held, dispatched, failed>>
loadingVars == <<gameQuestions, pc, status, loading, acq>>
poolCalls == <<insertLog, lastAdd, lastDraw>>
seenCalls == <<seenLog, lastMark, lastRead>>
history == <<poolCalls, seenCalls, lastTrigger>>

defaultState == [category |-> "General Knowledge", difficulty |-> "Medium"]

StartTime == 8 * DayMs

\* state.config.playerCount of defaultState, and the rounds of a game
NumPlayers == 2
totalRounds == 10

\* state.players as the start click builds it
NewPlayers ==
    [i \in 1..NumPlayers |->
        [id |-> i, score |-> 0, tokens |-> <<1, 2, 3, 4, 5, 6, 7, 8, 9, 10>>]]

NoSelection == [option |-> NULL, confidence |-> NULL]

\* defaultState of the script, with the game page's own variables and widgets:
\* currentTurnSelection, the confirm button, the token buttons and option
\* buttons that carry a click listener, the reveal popup; then history: the
\* tokens each player has confirmed, the reveals of each round, the loads of
\* /game, the wrong options clicked, the winner announced
DefaultGame ==
    [players |-> <<>>,
     currentRound |-> 1,
     currentPlayerIndex |-> 0,
     currentQuestion |-> NULL,
     playerAnswers |-> <<>>,
     currentTurnSelection |-> NoSelection,
     confirmEnabled |-> FALSE,
     tokenButtons |-> {},
     optionButtons |-> {},
     popup |-> FALSE,
     wagers |-> [i \in 1..NumPlayers |-> <<>>],
     reveals |-> [r \in 1..totalRounds |-> 0],
     loads |-> 0,
     wrong |-> 0,
     winner |-> NULL]

NoAcquisition ==
    [tier |-> "none", final |-> <<>>, remoteCalls |-> 0, seenIds |-> <<>>,
     pool0 |-> [key \in PoolKeys |-> NULL], seen0 |-> NULL, drawn |-> <<>>,
     drawTime |-> 0, ticket |-> NULL, ticketTime |-> 0, answer |-> NULL,
     category |-> "", difficulty |-> "", store0 |-> <<>>, fault |-> "none"]

NoAdd == [before |-> <<>>, batch |-> <<>>, repeated |-> FALSE, count |-> 0,
          entry |-> NULL, time |-> 0]

NoDraw == [done |-> FALSE, count |-> 0, excludeIds |-> <<>>, result |-> <<>>,
           entry |-> NULL, time |-> 0]

NoSeenLog == [entered |-> <<>>, marked |-> <<>>, written |-> 0]

NoMark == [before |-> NULL, batch |-> <<>>, time |-> 0, count |-> 0]

NoRead == [done |-> FALSE, before |-> NULL, result |-> <<>>, time |-> 0]

NoTrigger == [category |-> "", difficulty |-> "", count |-> 0, phase |-> "none",
              dispatched |-> 0]

NoHistory ==
    /\ lastDraw = NoDraw
    /\ seenLog = NoSeenLog
    /\ lastMark = NoMark
    /\ lastRead = NoRead
    /\ lastTrigger = NoTrigger

\* Pool entries a browser can hold from earlier sessions
StoredList(category, difficulty, from, to) ==
    LET list == ServerRange(category, difficulty, from, to)
    IN  [i \in 1..Len(list) |-> [list[i] EXCEPT !._id = EffectiveId(list[i])]]

PoolSnapshots ==
    LET c == defaultState.category
        d == defaultState.difficulty
        empty == [key \in PoolKeys |-> NULL]
    IN  { empty,
          savePoolData(empty, c, d, StoredList(c, d, 1, 12), StartTime - 60 * 60 * 1000),
          savePoolData(empty, c, d, StoredList(c, d, 6, 105), StartTime - 8 * DayMs) }

Init ==
    /\ page = "landing"
    /\ now = StartTime
    /\ config = defaultState
    /\ selection = defaultState
    /\ prefetchedQuestions = NULL
    /\ prefetchPromise = FALSE
    /\ prefetchCategory = NULL
    /\ prefetchDifficulty = NULL
    /\ inflight = {}
    /\ eot_prefetched = NULL
    /\ eot_seen_questions = NULL
    /\ pool \in PoolSnapshots
    /\ gameQuestions = <<>>
    /\ pc = "idle"
    /\ status = ""
    /\ loading = NULL
    /\ acq = NoAcquisition
    /\ held = NULL
    /\ dispatched = 0
    /\ failed = {}
    /\ games = 0
    /\ ticks = 0
    /\ game = DefaultGame
    /\ ticketGame = 0
    /\ insertLog = <<>>
    /\ lastAdd = NoAdd
    /\ NoHistory

----------------------------------------------------------------------------
(* Landing and setup pages: the prefetch controller                        *)

\* the script's prefetch variables and the storage prefetchQuestions touches
Controller ==
    [prefetchedQuestions |-> prefetchedQuestions,
     prefetchPromise |-> prefetchPromise,
     prefetchCategory |-> prefetchCategory,
     prefetchDifficulty |-> prefetchDifficulty,
     inflight |-> inflight,
     held |-> held,
     dispatched |-> dispatched,
     eot_seen_questions |-> eot_seen_questions]

\* the prefetch variables of a freshly loaded page
FreshController ==
    [prefetchedQuestions |-> NULL,
     prefetchPromise |-> FALSE,
     prefetchCategory |-> NULL,
     prefetchDifficulty |-> NULL,
     inflight |-> {},
     held |-> NULL,
     dispatched |-> 0,
     eot_seen_questions |-> eot_seen_questions]

\* prefetchQuestions without the early return of its first statement
prefetchQuestions_always(ctl, category, difficulty, t) ==
    [prefetchedQuestions |-> NULL,
     prefetchPromise |-> TRUE,
     prefetchCategory |-> Some(category),
     prefetchDifficulty |-> Some(difficulty),
     inflight |-> ctl.inflight \cup
         {[seq |-> ctl.dispatched + 1,
           category |-> category,
           difficulty |-> difficulty,
           count |-> 10,
           exclude_ids |-> getSeenQuestionIds(ctl.eot_seen_questions, t)]},
     held |-> NULL,
     dispatched |-> ctl.dispatched + 1,
     eot_seen_questions |-> SeenAfterRead(ctl.eot_seen_questions, t)]

\* prefetchQuestions(category, difficulty) at time t: the variables after the call
prefetchQuestions(ctl, category, difficulty, t) ==
    IF /\ ctl.prefetchCategory = Some(category)
       /\ ctl.prefetchDifficulty = Some(difficulty)
       /\ ctl.prefetchPromise
    THEN ctl
    ELSE [prefetchedQuestions |-> NULL,
          prefetchPromise |-> TRUE,
          prefetchCategory |-> Some(category),
          prefetchDifficulty |-> Some(difficulty),
          inflight |-> ctl.inflight \cup
              {[seq |-> ctl.dispatched + 1,
                category |-> category,
                difficulty |-> difficulty,
                count |-> 10,
                exclude_ids |-> getSeenQuestionIds(ctl.eot_seen_questions, t)]},
          held |-> NULL,
          dispatched |-> ctl.dispatched + 1,
          eot_seen_questions |-> SeenAfterRead(ctl.eot_seen_questions, t)]

SetController(ctl) ==
    /\ prefetchedQuestions' = ctl.prefetchedQuestions
    /\ prefetchPromise' = ctl.prefetchPromise
    /\ prefetchCategory' = ctl.prefetchCategory
    /\ prefetchDifficulty' = ctl.prefetchDifficulty
    /\ inflight' = ctl.inflight
    /\ held' = ctl.held
    /\ dispatched' = ctl.dispatched
    /\ eot_seen_questions' = ctl.eot_seen_questions

\* initLanding's click handler, and the load of /setup it leads to: resetState,
\* then initSetup with a fresh script state prefetches for the default selection
LandingStart ==
    /\ page = "landing"
    /\ games < MaxGames
    /\ page' = "setup"
    /\ config' = defaultState
    /\ selection' = defaultState
    /\ SetController(prefetchQuestions(FreshController, defaultState.category,
                                       defaultState.difficulty, now))
    /\ failed' = {}
    /\ game' = DefaultGame
    /\ UNCHANGED <<now, ticketGame, eot_prefetched, pool, loadingVars, games, ticks, history>>

\* the change listeners of category-select and difficulty-select
SelectionChange ==
    /\ page = "setup"
    /\ dispatched < MaxPrefetch
    /\ \E c \in CategorySet, d \in DifficultySet :
        /\ (c = selection.category) # (d = selection.difficulty)
        /\ selection' = [category |-> c, difficulty |-> d]
        /\ SetController(prefetchQuestions(Controller, c, d, now))
    /\ UNCHANGED <<game, ticketGame, page, now, config, eot_prefetched, pool, loadingVars, games,
                   ticks, failed, history>>

\* the .then/.catch chain of prefetchQuestions, run when a response arrives
PrefetchResponse ==
    /\ page = "setup"
    /\ \E request \in inflight :
        \E answer \in RemoteAnswers(request) :
            /\ inflight' = inflight \ {request}
            /\ IF answer.kind = "list"
               THEN /\ prefetchedQuestions' = Some(answer.data)
                    /\ held' = Some(request)
                    /\ failed' = failed
               ELSE /\ failed' = failed \cup {request.seq}
                    /\ UNCHANGED <<prefetchedQuestions, held>>
    /\ UNCHANGED <<game, ticketGame, page, now, config, selection, prefetchPromise, prefetchCategory,
                   prefetchDifficulty, dispatched, eot_prefetched,
                   eot_seen_questions, pool, loadingVars, games, ticks, history>>

\* savePrefetchedQuestions: sessionStorage after the call
savePrefetchedQuestions(item) ==
    IF prefetchedQuestions # NULL
    THEN Some([questions |-> prefetchedQuestions[1],
               category |-> prefetchCategory[1],
               difficulty |-> prefetchDifficulty[1],
               timestamp |-> now])
    ELSE item

\* the click handler of start-game-btn, and the unload of the setup page
StartClick ==
    /\ page = "setup"
    /\ config' = selection
    /\ eot_prefetched' = savePrefetchedQuestions(eot_prefetched)
    /\ page' = "loading"
    /\ pc' = "start"
    /\ status' = "Consulting the Oracle..."
    /\ prefetchedQuestions' = NULL
    /\ prefetchPromise' = FALSE
    /\ prefetchCategory' = NULL
    /\ prefetchDifficulty' = NULL
    /\ inflight' = {}
    /\ held' = NULL
    /\ dispatched' = 0
    /\ failed' = {}
    /\ games' = games + 1
    /\ ticketGame' = IF prefetchedQuestions # NULL THEN games + 1 ELSE ticketGame
    /\ game' = [game EXCEPT !.players = NewPlayers]
    /\ UNCHANGED <<now, selection, eot_seen_questions, pool, gameQuestions,
                   loading, acq, ticks, history>>

----------------------------------------------------------------------------
(* Loading page: initLoading                                               *)

\* variants of the test of STEP 2: without the age, without the settings
TicketAccepted_anyAge(data, category, difficulty, t) ==
    /\ data.category = category
    /\ data.difficulty = difficulty
    /\ Len(data.questions) >= requiredCount

TicketAccepted_anySettings(data, category, difficulty, t) ==
    /\ Len(data.questions) >= requiredCount
    /\ (t - data.timestamp) < PREFETCH_MAX_AGE

\* the test of STEP 2 on the parsed sessionStorage item
TicketAccepted(data, category, difficulty, t) ==
    /\ data.category = category
    /\ data.difficulty = difficulty
    /\ Len(data.questions) >= requiredCount
    /\ (t - data.timestamp) < PREFETCH_MAX_AGE

\* variants: the item stays in sessionStorage, the item stays unless it matched
TicketAfterStep2_keep(item, inspected, accepted) == item

TicketAfterStep2_keepUnmatched(item, inspected, accepted) ==
    IF accepted THEN NULL ELSE item

\* sessionStorage item eot_prefetched after STEP 2: removeItem once it was read
TicketAfterStep2(item, inspected, accepted) ==
    IF inspected THEN NULL ELSE item

\* initLoading from its start to the first await of the network: the clearing
\* of the per-game store, STEP 1 and STEP 2 drawn with the k-th random sequence.
\* With a final set it runs on to addSeenQuestionIds and awaits storeQuestions.
LoadingOutcome(k) ==
    LET seenIds == getSeenQuestionIds(eot_seen_questions, now)
        seenRead == SeenAfterRead(eot_seen_questions, now)
        category == config.category
        difficulty == config.difficulty
        poolQuestions == getQuestionsFromPool(pool, category, difficulty,
                                              requiredCount, seenIds, now, k)
        poolHit == Len(poolQuestions) >= requiredCount
        inspected == ~poolHit /\ eot_prefetched # NULL
        accepted == inspected /\ TicketAccepted(eot_prefetched[1], category, difficulty, now)
        added == addQuestionsToPool(pool, category, difficulty,
                                    eot_prefetched[1].questions, now)
        questions == IF poolHit THEN poolQuestions ELSE added.newQuestions
        found == poolHit \/ accepted
    IN  [found |-> found,
         tier |-> IF poolHit THEN "pool" ELSE IF accepted THEN "prefetch" ELSE "remote",
         seenIds |-> seenIds,
         category |-> category,
         difficulty |-> difficulty,
         drawn |-> poolQuestions,
         questions |-> IF found THEN questions ELSE <<>>,
         pool |-> IF accepted THEN added.pool
                  ELSE PoolAfterDraw(pool, category, difficulty, requiredCount,
                                     seenIds, now, k),
         eot_prefetched |-> TicketAfterStep2(eot_prefetched, inspected, accepted),
         eot_seen_questions |->
            IF found THEN addSeenQuestionIds(seenRead, questions, now) ELSE seenRead,
         gameQuestions |-> clearGameQuestions(gameQuestions),
         status |-> IF found THEN "Storing Knowledge..." ELSE "Fetching from Server...",
         pc |-> IF found THEN "storing" ELSE "fetching"]

LoadingRun ==
    /\ page = "loading"
    /\ pc = "start"
    /\ \E k \in 1..NumShuffles :
        LET r == LoadingOutcome(k)
        IN  /\ pool' = r.pool
            /\ eot_prefetched' = r.eot_prefetched
            /\ eot_seen_questions' = r.eot_seen_questions
            /\ gameQuestions' = r.gameQuestions
            /\ status' = r.status
            /\ pc' = r.pc
            /\ loading' = Some([seenIds |-> r.seenIds,
                                category |-> r.category,
                                difficulty |-> r.difficulty,
                                questions |-> r.questions])
            /\ acq' = [tier |-> r.tier,
                       final |-> r.questions,
                       remoteCalls |-> IF r.found THEN 0 ELSE 1,
                       seenIds |-> r.seenIds,
                       pool0 |-> pool,
                       seen0 |-> eot_seen_questions,
                       drawn |-> r.drawn,
                       drawTime |-> now,
                       ticket |-> eot_prefetched,
                       ticketTime |-> now,
                       answer |-> NULL,
                       category |-> r.category,
                       difficulty |-> r.difficulty,
                       store0 |-> gameQuestions,
                       fault |-> "none"]
    /\ UNCHANGED <<game, ticketGame, page, now, config, selection, prefetchedQuestions, prefetchPromise,
                   prefetchCategory, prefetchDifficulty, inflight, held, dispatched,
                   failed, games, ticks, history>>

\* the request of STEP 3
LoadingRequest ==
    [category |-> loading[1].category,
     difficulty |-> loading[1].difficulty,
     count |-> requiredCount,
     exclude_ids |-> loading[1].seenIds]

\* initLoading from the response of STEP 3 to its end: the catch block on a
\* transport failure or an error payload, else merge, mark seen, store
\* variant: the answer is merged into the pool before its error is looked at
ResponseOutcome_mergeFirst(answer) ==
    LET added == addQuestionsToPool(pool, loading[1].category, loading[1].difficulty,
                                    answer.data, now)
        questions == added.newQuestions
    IN  [pc |-> IF answer.kind # "list" THEN "error" ELSE "storing",
         status |-> IF answer.kind # "list" THEN "Error: " \o answer.error
                    ELSE "Storing Knowledge...",
         questions |-> IF answer.kind # "list" THEN <<>> ELSE questions,
         pool |-> added.pool,
         eot_seen_questions |-> IF answer.kind # "list" THEN eot_seen_questions
                                ELSE addSeenQuestionIds(eot_seen_questions, questions, now),
         gameQuestions |-> gameQuestions]

\* variant: the questions of the answer are not marked seen
ResponseOutcome_noMark(answer) ==
    LET added == addQuestionsToPool(pool, loading[1].category, loading[1].difficulty,
                                    answer.data, now)
        questions == added.newQuestions
    IN  IF answer.kind # "list"
        THEN [pc |-> "error",
              status |-> "Error: " \o answer.error,
              questions |-> <<>>,
              pool |-> pool,
              eot_seen_questions |-> eot_seen_questions,
              gameQuestions |-> gameQuestions]
        ELSE [pc |-> "storing",
              status |-> "Storing Knowledge...",
              questions |-> questions,
              pool |-> added.pool,
              eot_seen_questions |-> eot_seen_questions,
              gameQuestions |-> gameQuestions]

\* variant: a list shorter than requiredCount is an error
ResponseOutcome_rejectShort(answer) ==
    LET added == addQuestionsToPool(pool, loading[1].category, loading[1].difficulty,
                                    answer.data, now)
        questions == added.newQuestions
    IN  IF answer.kind # "list" \/ Len(answer.data) < requiredCount
        THEN [pc |-> "error",
              status |-> "Error: " \o answer.error,
              questions |-> <<>>,
              pool |-> pool,
              eot_seen_questions |-> eot_seen_questions,
              gameQuestions |-> gameQuestions]
        ELSE [pc |-> "storing",
              status |-> "Storing Knowledge...",
              questions |-> questions,
              pool |-> added.pool,
              eot_seen_questions |-> addSeenQuestionIds(eot_seen_questions, questions, now),
              gameQuestions |-> gameQuestions]

ResponseOutcome(answer) ==
    LET added == addQuestionsToPool(pool, loading[1].category, loading[1].difficulty,
                                    answer.data, now)
        questions == added.newQuestions
    IN  IF answer.kind # "list"
        THEN [pc |-> "error",
              status |-> "Error: " \o answer.error,
              questions |-> <<>>,
              pool |-> pool,
              eot_seen_questions |-> eot_seen_questions,
              gameQuestions |-> gameQuestions]
        ELSE [pc |-> "storing",
              status |-> "Storing Knowledge...",
              questions |-> questions,
              pool |-> added.pool,
              eot_seen_questions |-> addSeenQuestionIds(eot_seen_questions, questions, now),
              gameQuestions |-> gameQuestions]

LoadingResponse ==
    /\ page = "loading"
    /\ pc = "fetching"
    /\ \E answer \in RemoteAnswers(LoadingRequest) :
        LET r == ResponseOutcome(answer)
        IN  /\ pc' = r.pc
            /\ status' = r.status
            /\ pool' = r.pool
            /\ eot_seen_questions' = r.eot_seen_questions
            /\ gameQuestions' = r.gameQuestions
            /\ acq' = [acq EXCEPT !.final = r.questions, !.answer = Some(answer)]
            /\ loading' = IF r.pc = "storing"
                          THEN Some([loading[1] EXCEPT !.questions = r.questions])
                          ELSE NULL
    /\ UNCHANGED <<game, ticketGame, page, now, config, selection, controllerVars, eot_prefetched,
                   games, ticks, history>>

\* initLoading after addSeenQuestionIds: await storeQuestions(questions)
StoreFinal ==
    /\ page = "loading"
    /\ pc = "storing"
    /\ gameQuestions' = storeQuestions(gameQuestions, loading[1].questions)
    /\ pc' = "done"
    /\ loading' = NULL
    /\ UNCHANGED <<game, ticketGame, page, now, config, selection, controllerVars, eot_prefetched,
                   eot_seen_questions, pool, status, acq, games, ticks, history>>

\* the timer set at the end of the try block: window.location.href = '/game'
NavigateToGame ==
    /\ page = "loading"
    /\ pc = "done"
    /\ page' = "game"
    /\ pc' = "idle"
    /\ status' = ""
    /\ UNCHANGED <<game, ticketGame, now, config, selection, controllerVars, eot_prefetched,
                   eot_seen_questions, pool, gameQuestions, loading, acq,
                   games, ticks, history>>

\* leaving the game (restart-btn of the results page) or the error state for '/'
ReturnToLanding ==
    /\ \/ page = "game"
       \/ page = "loading" /\ pc = "error"
    /\ page' = "landing"
    /\ pc' = "idle"
    /\ status' = ""
    /\ acq' = NoAcquisition
    /\ UNCHANGED <<game, ticketGame, now, config, selection, controllerVars, eot_prefetched,
                   eot_seen_questions, pool, gameQuestions, loading,
                   games, ticks, history>>

\* the clock: six minutes or twenty-five hours pass
TickSteps == {6 * 60 * 1000, 25 * 60 * 60 * 1000}

Tick ==
    /\ ticks < MaxTicks
    /\ page \in {"setup", "game"}
    /\ \E d \in TickSteps : now' = now + d
    /\ ticks' = ticks + 1
    /\ UNCHANGED <<game, ticketGame, page, config, selection, controllerVars, eot_prefetched,
                   eot_seen_questions, pool, loadingVars, games, history>>

Next ==
    \/ LandingStart
    \/ SelectionChange
    \/ PrefetchResponse
    \/ StartClick
    \/ LoadingRun
    \/ LoadingResponse
    \/ StoreFinal
    \/ NavigateToGame
    \/ ReturnToLanding
    \/ Tick

Spec == Init /\ [][Next]_vars

----------------------------------------------------------------------------
(* Properties of the acquisition                                           *)

IdsOf(list) == Range(MapId(list))

\* the entry of (category, difficulty) is stored, not expired at time t, and
\* holds at least requiredCount questions outside seenIds
PoolEntryReady(poolStore, category, difficulty, seenIds, t) ==
    LET data == poolStore[getPoolKey(category, difficulty)]
    IN  /\ data # NULL
        /\ t - data[1].lastUpdated <= EXPIRY_DAYS * DayMs
        /\ Cardinality({i \in 1..Len(data[1].questions) :
                            data[1].questions[i]._id \notin Range(seenIds)})
              >= requiredCount

AcquisitionRan == acq.tier # "none"
AcquisitionSucceeded == AcquisitionRan /\ pc \in {"done", "idle"}

\* initLoading has its final set: it is storing it (the set is the local
\* variable questions), or has succeeded
AcquisitionHasFinalSet ==
    /\ AcquisitionRan
    /\ pc \in {"storing", "done", "idle"}
    /\ pc = "storing" => loading # NULL /\ loading[1].questions = acq.final


\* C1 (orchestration priority): whenever the pool entry of the game's setting is
\* not expired and holds at least 10 questions outside getSeenIds(), initLoading
\* takes its final set of 10 from that entry and issues no remote request,
\* whatever ticket sessionStorage holds.
C1_PoolPriority ==
    (AcquisitionRan /\ PoolEntryReady(acq.pool0, acq.category, acq.difficulty,
                                      acq.seenIds, acq.drawTime))
    => /\ AcquisitionHasFinalSet
       /\ acq.tier = "pool"
       /\ acq.remoteCalls = 0
       /\ Len(acq.final) = requiredCount
       /\ Cardinality(IdsOf(acq.final)) = requiredCount
       /\ Range(acq.final) \subseteq
            Range(acq.pool0[getPoolKey(acq.category, acq.difficulty)][1].questions)

\* C1's case: a pool hit although a ticket that step 2 would accept is stored
C1_Witness ==
    /\ pc = "done"
    /\ acq.tier = "pool"
    /\ acq.ticket # NULL
    /\ TicketAccepted(acq.ticket[1], acq.category, acq.difficulty, acq.drawTime)

\* C2 (last change wins): the result held by the prefetch controller is empty or
\* the response of the request dispatched last, the one for the current
\* (prefetchCategory, prefetchDifficulty); the response of an older request
\* never occupies the slot.
C2_LastChangeWins ==
    prefetchedQuestions # NULL
    => /\ held # NULL
       /\ held[1].seq = dispatched
       /\ Some(held[1].category) = prefetchCategory
       /\ Some(held[1].difficulty) = prefetchDifficulty

\* C3 (never before seen): no question of the final set of a successful
\* acquisition has an id that getSeenIds() returned at the start of that
\* acquisition (the remote generator honours exclude_ids).
C3_NeverBeforeSeen ==
    AcquisitionSucceeded => IdsOf(acq.final) \cap Range(acq.seenIds) = {}

\* the entry of the game's setting was absent, empty or expired at the draw
PoolEntryUnusable ==
    LET data == acq.pool0[getPoolKey(acq.category, acq.difficulty)]
    IN  \/ data = NULL
        \/ Len(data[1].questions) = 0
        \/ acq.drawTime - data[1].lastUpdated > EXPIRY_DAYS * DayMs

\* no ticket is stored, or none that fits the setting, the count and the age
NoMatchingTicket ==
    \/ acq.ticket = NULL
    \/ ~TicketAccepted(acq.ticket[1], acq.category, acq.difficulty, acq.drawTime)

RemoteReturned(n) ==
    /\ acq.answer # NULL
    /\ acq.answer[1].kind = "list"
    /\ Len(acq.answer[1].data) = n

\* the case of the fallback property, once the response of step 3 is in
FallbackCase ==
    /\ AcquisitionRan
    /\ PoolEntryUnusable
    /\ NoMatchingTicket
    /\ RemoteReturned(requiredCount)

StoredIds(poolStore, category, difficulty) ==
    LET data == poolStore[getPoolKey(category, difficulty)]
    IN  IF data = NULL THEN {} ELSE IdsOf(data[1].questions)

\* the per-game store holds exactly list, numbered 1..Len(list) in order
GameStoreHolds(list) ==
    /\ DOMAIN gameQuestions = 1..Len(list)
    /\ \A round \in 1..Len(list) :
        /\ gameQuestions[round].id = round
        /\ gameQuestions[round]._id = list[round]._id
        /\ gameQuestions[round].question = list[round].question

FallbackSucceeds ==
    /\ AcquisitionHasFinalSet
    /\ acq.tier = "remote"
    /\ acq.remoteCalls = 1
    /\ Len(acq.final) = requiredCount
    /\ \A i \in 1..requiredCount :
          acq.final[i]._id = EffectiveId(acq.answer[1].data[i])
    /\ AcquisitionSucceeded => GameStoreHolds(acq.final)

\* C4 as claimed (fallback): with the pool entry absent, empty or expired, no
\* matching ticket and a remote response of exactly 10 questions, the acquisition
\* succeeds with one remote request, the per-game store holds the 10 under keys
\* 1..10 and the pool entry contains all 10.
C4_Fallback_Claimed ==
    FallbackCase
    => /\ FallbackSucceeds
       /\ IdsOf(acq.final) \subseteq StoredIds(pool, acq.category, acq.difficulty)

\* C4 as amended: ... and the pool entry contains each of the 10 that the entry
\* did not store before, and all 10 whenever the old entry and the new questions
\* together stay within MAX_SIZE (always so for an absent or empty entry).
C4_Fallback ==
    FallbackCase
    => LET before == StoredIds(acq.pool0, acq.category, acq.difficulty)
           after == StoredIds(pool, acq.category, acq.difficulty)
           old == acq.pool0[getPoolKey(acq.category, acq.difficulty)]
           oldLen == IF old = NULL THEN 0 ELSE Len(old[1].questions)
       IN  /\ FallbackSucceeds
           /\ IdsOf(acq.final) \ before \subseteq after
           /\ oldLen + Cardinality(IdsOf(acq.final) \ before) <= MAX_SIZE
                => IdsOf(acq.final) \subseteq after

\* C4's case: the fallback ran on an expired entry that fills its bound
C4_Witness ==
    /\ FallbackCase
    /\ pc = "done"
    /\ acq.pool0[getPoolKey(acq.category, acq.difficulty)] # NULL
    /\ StoredIds(pool, acq.category, acq.difficulty)
         # StoredIds(acq.pool0, acq.category, acq.difficulty)

RemoteReportedError ==
    /\ AcquisitionRan
    /\ acq.answer # NULL
    /\ acq.answer[1].kind = "error"

\* C5 (application-level error at step 3): the acquisition ends in the error
\* state showing that error, does not navigate to the game, leaves the per-game
\* store empty, and leaves the pool and the list returned by getSeenIds() as
\* they were before the acquisition.
C5_RemoteErrorAborts ==
    /\ RemoteReportedError
       => /\ page = "loading"
          /\ pc = "error"
          /\ status = "Error: " \o acq.answer[1].error
          /\ DOMAIN gameQuestions = {}
          /\ pool = acq.pool0
          /\ getSeenQuestionIds(eot_seen_questions, now)
               = getSeenQuestionIds(acq.seen0, now)
    /\ page = "game" => acq.answer = NULL \/ acq.answer[1].kind = "list"

\* C5's case: the error payload came back while a stale seen record and a pool
\* entry were stored
C5_Witness ==
    /\ RemoteReportedError
    /\ acq.pool0[getPoolKey(acq.category, acq.difficulty)] # NULL
    /\ acq.seen0 # NULL

\* C6 (ten rounds stored): every acquisition that ends in success has written
\* exactly 10 questions to the per-game store, one for each round 1..10, so
\* getQuestion(r) is defined for every round the game plays.
C6_TenRoundsStored ==
    AcquisitionSucceeded
    => /\ DOMAIN gameQuestions = 1..requiredCount
       /\ \A round \in 1..requiredCount : getQuestion(gameQuestions, round) # NULL

\* C7 (short response is success): a list shorter than 10 returned at step 3,
\* the empty list included, does not lead to the error state; it is merged into
\* the pool (its new questions end the entry, written at that time), marked seen
\* and stored as the game's question set.
C7_ShortResponseAccepted ==
    (AcquisitionRan /\ \E n \in 0..(requiredCount - 1) : RemoteReturned(n))
    => LET data == pool[getPoolKey(acq.category, acq.difficulty)]
           before == StoredIds(acq.pool0, acq.category, acq.difficulty)
           fresh == SelectSeq(Uniq(MapId(acq.final)), LAMBDA id : id \notin before)
       IN  /\ AcquisitionHasFinalSet
           /\ pc \in {"storing", "done"} => status = "Storing Knowledge..."
           /\ Len(acq.final) = Len(acq.answer[1].data)
           /\ data # NULL
           /\ pc \in {"storing", "done"} => data[1].lastUpdated = now
           /\ SliceLast(MapId(data[1].questions), Len(fresh)) = fresh
           /\ pc \in {"storing", "done"}
                => IdsOf(acq.final) \subseteq
                     Range(getSeenQuestionIds(eot_seen_questions, now))
           /\ AcquisitionSucceeded => GameStoreHolds(acq.final)

\* C7's case: nine questions came back and the game starts with them
C7_Witness ==
    /\ page = "game"
    /\ RemoteReturned(requiredCount - 1)
    /\ DOMAIN gameQuestions = 1..(requiredCount - 1)

----------------------------------------------------------------------------
(* The pool cache on its own: sequences of addQuestionsToPool calls on one  *)
(* (category, difficulty), from entries a browser can hold                  *)

PoolCategory == defaultState.category
PoolDifficulty == defaultState.difficulty
PoolEntry == pool[getPoolKey(PoolCategory, PoolDifficulty)]
PoolQuestions == IF PoolEntry = NULL THEN <<>> ELSE PoolEntry[1].questions

\* stored lists the calls start from: none, 95 questions, a full entry
PoolSeeds == {<<>>, StoredList(PoolCategory, PoolDifficulty, 1, 95),
              StoredList(PoolCategory, PoolDifficulty, 6, 105)}

\* lists handed to addQuestionsToPool: ten questions as the remote generator
\* sends them (some without _id), or nine and the first of them once more
PoolOffsets == {1, 96, 101}

PlainBatch(offset) ==
    ServerRange(PoolCategory, PoolDifficulty, offset, offset + requiredCount - 1)

RepeatingBatch(offset) ==
    ServerRange(PoolCategory, PoolDifficulty, offset, offset + requiredCount - 2)
        \o <<ServerQuestion(PoolCategory, PoolDifficulty, offset)>>

PoolBatches ==
    {PlainBatch(offset) : offset \in PoolOffsets}
    \cup {RepeatingBatch(offset) : offset \in PoolOffsets}
    \cup {<<>>}

EffectiveIds(list) == [i \in 1..Len(list) |-> EffectiveId(list[i])]

\* the ids of a list that enter an entry storing the ids `stored`: each id once,
\* in the order of the list, unless it is stored already
EnteringIds(stored, list) ==
    SelectSeq(Uniq(EffectiveIds(list)), LAMBDA id : id \notin stored)

InitPool ==
    /\ page = "landing"
    /\ now = StartTime
    /\ config = defaultState
    /\ selection = defaultState
    /\ prefetchedQuestions = NULL
    /\ prefetchPromise = FALSE
    /\ prefetchCategory = NULL
    /\ prefetchDifficulty = NULL
    /\ inflight = {}
    /\ eot_prefetched = NULL
    /\ eot_seen_questions = NULL
    /\ \E seed \in PoolSeeds :
        /\ pool = IF seed = <<>> THEN [key \in PoolKeys |-> NULL]
                  ELSE savePoolData([key \in PoolKeys |-> NULL], PoolCategory,
                                    PoolDifficulty, seed, StartTime - DayMs)
        /\ insertLog = MapId(seed)
    /\ gameQuestions = <<>>
    /\ pc = "idle"
    /\ status = ""
    /\ loading = NULL
    /\ acq = NoAcquisition
    /\ held = NULL
    /\ dispatched = 0
    /\ failed = {}
    /\ games = 0
    /\ ticks = 0
    /\ game = DefaultGame
    /\ ticketGame = 0
    /\ lastAdd = NoAdd
    /\ NoHistory

\* one call addQuestionsToPool(category, difficulty, batch)
AddCall(batch, repeated) ==
    LET r == addQuestionsToPool(pool, PoolCategory, PoolDifficulty, batch, now)
    IN  /\ pool' = r.pool
        /\ insertLog' = insertLog \o EnteringIds(IdsOf(PoolQuestions), batch)
        /\ lastAdd' = [before |-> PoolQuestions,
                       batch |-> r.newQuestions,
                       repeated |-> repeated,
                       count |-> lastAdd.count + 1,
                       entry |-> PoolEntry,
                       time |-> now]
        /\ lastDraw' = NoDraw
        /\ UNCHANGED <<game, ticketGame, page, now, config, selection, controllerVars, eot_prefetched,
                       eot_seen_questions, loadingVars, games, ticks, seenCalls,
                       lastTrigger>>

\* a call with a list from the remote generator
PoolAdd ==
    /\ lastAdd.count < MaxAdds
    /\ \E batch \in PoolBatches : AddCall(batch, FALSE)

\* the call of the previous list once more: add(X) followed by add(X)
PoolAddAgain ==
    /\ lastAdd.count < MaxAdds
    /\ lastAdd.count > 0
    /\ AddCall(lastAdd.batch, TRUE)

\* arguments of the draw calls
DrawCounts == {1, requiredCount}
DrawExcludes == {<<>>, MapId(StoredList(PoolCategory, PoolDifficulty, 1, MAX_SIZE))}

\* one call getQuestionsFromPool(category, difficulty, count, excludeIds)
PoolDraw ==
    \E count \in DrawCounts, excludeIds \in DrawExcludes, k \in 1..NumShuffles :
        /\ lastDraw' = [done |-> TRUE,
                        count |-> count,
                        excludeIds |-> excludeIds,
                        result |-> getQuestionsFromPool(pool, PoolCategory, PoolDifficulty,
                                                        count, excludeIds, now, k),
                        entry |-> PoolEntry,
                        time |-> now]
        /\ pool' = PoolAfterDraw(pool, PoolCategory, PoolDifficulty, count,
                                 excludeIds, now, k)
        /\ UNCHANGED <<game, ticketGame, page, now, config, selection, controllerVars, eot_prefetched,
                       eot_seen_questions, loadingVars, games, ticks, insertLog,
                       lastAdd, seenCalls, lastTrigger>>

\* the clock of SpecPool: seven or eight days pass
PoolTickSteps == {EXPIRY_DAYS * DayMs, (EXPIRY_DAYS + 1) * DayMs}

PoolTick ==
    /\ ticks < MaxTicks
    /\ \E d \in PoolTickSteps : now' = now + d
    /\ ticks' = ticks + 1
    /\ lastDraw' = NoDraw
    /\ UNCHANGED <<game, ticketGame, page, config, selection, controllerVars, eot_prefetched,
                   eot_seen_questions, pool, loadingVars, games, insertLog,
                   lastAdd, seenCalls, lastTrigger>>

NextPool == PoolAdd \/ PoolAddAgain \/ PoolDraw \/ PoolTick

SpecPool == InitPool /\ [][NextPool]_vars

\* C8 (pool bound): after any sequence of add calls the entry has at most 100
\* questions, and they are the most recently added ones in add order: those
\* whose ids entered the entry last (an id that is stored already does not
\* enter again), the oldest evicted first.
C8_PoolBound ==
    /\ Len(PoolQuestions) <= MAX_SIZE
    /\ MapId(PoolQuestions) = SliceLast(insertLog, MAX_SIZE)

\* C8's case: more than 100 ids have entered and an add call evicted some
C8_Witness ==
    /\ lastAdd.count > 0
    /\ Len(insertLog) > MAX_SIZE
    /\ Len(PoolQuestions) = MAX_SIZE
    /\ Len(lastAdd.before) = MAX_SIZE
    /\ PoolQuestions # lastAdd.before

HasRepeat(list) == Cardinality(Range(list)) < Len(list)

\* C9 (pool uniqueness): after any sequence of add calls, also with lists that
\* repeat an id and with questions that arrive without an id, no two questions
\* of a pool entry share an id.
C9_PoolUnique ==
    \A key \in PoolKeys :
        pool[key] # NULL
        => /\ ~HasRepeat(MapId(pool[key][1].questions))
           /\ <<>> \notin IdsOf(pool[key][1].questions)

\* C9's case: the list added last repeated a question that came without an id
C9_Witness ==
    /\ lastAdd.count > 0
    /\ HasRepeat(MapId(lastAdd.batch))
    /\ \E i \in 1..Len(lastAdd.batch) :
        /\ lastAdd.batch[i]._id = generateQuestionId(lastAdd.batch[i])
        /\ \E j \in 1..Len(lastAdd.batch) : j # i /\ lastAdd.batch[j] = lastAdd.batch[i]

\* C10 as claimed (dedup is idempotent): a list in which every id is stored
\* already leaves the stored sequence identical, and add(X) followed by add(X)
\* stores the same questions as add(X) alone.
C10_DedupIdempotent_Claimed ==
    /\ (lastAdd.count > 0 /\ IdsOf(lastAdd.batch) \subseteq IdsOf(lastAdd.before))
       => PoolQuestions = lastAdd.before
    /\ lastAdd.repeated => PoolQuestions = lastAdd.before

\* C10 as amended: a list in which every id is stored already leaves the stored
\* sequence identical; so add(X) followed by add(X) stores the same questions as
\* add(X) alone whenever every id of X is stored after the first add(X), that is
\* unless its trim to MAX_SIZE evicted a question of X that was stored before.
C10_DedupIdempotent ==
    (lastAdd.count > 0 /\ IdsOf(lastAdd.batch) \subseteq IdsOf(lastAdd.before))
    => PoolQuestions = lastAdd.before

\* C10's case: the same list was added twice and the second call kept the entry
C10_Witness ==
    /\ lastAdd.repeated
    /\ Len(lastAdd.before) > 0
    /\ IdsOf(lastAdd.batch) \subseteq IdsOf(lastAdd.before)
    /\ PoolQuestions = lastAdd.before

----------------------------------------------------------------------------
(* Draws from the pool *)

\* an entry is expired when now - lastUpdated exceeds seven days
PoolExpired(entry, t) == entry # NULL /\ t - entry[1].lastUpdated > EXPIRY_DAYS * DayMs

ExpiredDraw == lastDraw.done /\ PoolExpired(lastDraw.entry, lastDraw.time)

\* the last add call found an expired entry
RevivingAdd == lastAdd.count > 0 /\ PoolExpired(lastAdd.entry, lastAdd.time)

\* a draw with count >= 1 and no exclusions, made once that add had returned
DrawAfterRevival ==
    /\ RevivingAdd
    /\ lastDraw.done
    /\ lastDraw.time = lastAdd.time
    /\ lastDraw.count >= 1
    /\ lastDraw.excludeIds = <<>>

ExpiryAndTimestamp ==
    /\ ExpiredDraw => /\ lastDraw.result = <<>>
                      /\ PoolEntry = lastDraw.entry
    /\ RevivingAdd => /\ PoolEntry # NULL
                      /\ PoolEntry[1].lastUpdated = lastAdd.time

\* C11 as claimed (pool expiry and revival): a draw returns the empty list
\* whenever now - lastUpdated exceeds 7 days, whatever the entry stores, and the
\* expired entry is not deleted; after one add to that entry, even one that adds
\* no new id, lastUpdated is now and a draw with count >= 1 and no exclusions
\* returns a non-empty list.
C11_ExpiryRevival_Claimed ==
    /\ ExpiryAndTimestamp
    /\ DrawAfterRevival => lastDraw.result # <<>>

\* C11 as amended: as claimed, but the draw after the add returns a non-empty
\* list (of stored questions, the previously expired ones among them) provided
\* the entry stores at least one question after the add; an expired entry with
\* an empty list to which nothing is added still yields the empty list.
C11_ExpiryRevival ==
    /\ ExpiryAndTimestamp
    /\ (DrawAfterRevival /\ PoolQuestions # <<>>)
       => /\ lastDraw.result # <<>>
          /\ Range(lastDraw.result) \subseteq Range(PoolQuestions)
    /\ (DrawAfterRevival /\ PoolQuestions = <<>>) => lastDraw.result = <<>>

\* C11's case: an expired entry with questions got an add that added no new id,
\* and the draw after it returned questions that were expired before
C11_Witness ==
    /\ DrawAfterRevival
    /\ lastAdd.before # <<>>
    /\ PoolQuestions = lastAdd.before
    /\ lastDraw.result # <<>>
    /\ Range(lastDraw.result) \subseteq Range(lastAdd.before)

\* C12 (exclusion): for every pool content, count and excludeIds, a draw never
\* returns a question whose id is in excludeIds.
C12_Exclusion ==
    lastDraw.done
    => \A i \in 1..Len(lastDraw.result) :
        lastDraw.result[i]._id \notin Range(lastDraw.excludeIds)

\* C12's case: the entry stored excluded questions and the draw returned others
C12_Witness ==
    /\ lastDraw.done
    /\ lastDraw.result # <<>>
    /\ IdsOf(PoolQuestions) \cap Range(lastDraw.excludeIds) # {}

\* C13 (draw is read-only): an acquisition satisfied by the pool tier, whose only
\* access to the pool is its draw, leaves every pool entry as it was: the stored
\* questions, their order and lastUpdated; the drawn questions are still stored.
C13_DrawReadOnly ==
    (AcquisitionSucceeded /\ acq.tier = "pool")
    => /\ pool = acq.pool0
       /\ Range(acq.final) \subseteq
            Range(getPoolData(pool, acq.category, acq.difficulty)[1].questions)

\* C13's case: the pool served a later game with questions an earlier game had
\* been given (its seen record had expired by then)
C13_Witness ==
    /\ AcquisitionSucceeded
    /\ acq.tier = "pool"
    /\ games = 2
    /\ acq.seen0 # NULL
    /\ IdsOf(acq.final) \cap Range(acq.seen0[1].ids) # {}

\* the stored questions whose id is not in excludeIds, counted
NumAvailable(questions, excludeIds) ==
    Cardinality({i \in 1..Len(questions) : questions[i]._id \notin Range(excludeIds)})

\* C14 (draw size): for a non-expired entry a draw returns exactly
\* min(count, number of stored questions whose id is not in excludeIds)
\* questions; with fewer than count available it returns all of them.
C14_DrawSize ==
    (lastDraw.done /\ lastDraw.entry # NULL /\ ~PoolExpired(lastDraw.entry, lastDraw.time))
    => LET stored == lastDraw.entry[1].questions
           n == NumAvailable(stored, lastDraw.excludeIds)
       IN  /\ Len(lastDraw.result) = Min(lastDraw.count, n)
           /\ Range(lastDraw.result) \subseteq Range(stored)
           /\ ~HasRepeat(lastDraw.result)

\* C14's case: fewer questions than asked for were available, and all came back
C14_Witness ==
    /\ lastDraw.done
    /\ lastDraw.entry # NULL
    /\ ~PoolExpired(lastDraw.entry, lastDraw.time)
    /\ Len(lastDraw.result) > 0
    /\ Len(lastDraw.result) < lastDraw.count

----------------------------------------------------------------------------
(* The seen tracker on its own: sequences of markSeen (addSeenQuestionIds)  *)
(* and getSeenIds (getSeenQuestionIds) calls as the clock advances          *)

\* a record left by earlier games: 195 ids, written at StartTime
SeenSeedIds ==
    MapId(StoredList("Science", "Medium", 1, CatalogSize))
        \o MapId(StoredList("Science", "Hard", 1, 75))

SeenSeeds == {NULL, Some([ids |-> SeenSeedIds, timestamp |-> StartTime])}

\* lists handed to addSeenQuestionIds: final sets (ten questions that are in the
\* seed, sixty new ones), a list as the remote generator sends it (some
\* questions without _id), and the empty list
SeenBatches ==
    {StoredList("Science", "Medium", 1, requiredCount),
     StoredList("General Knowledge", "Medium", 1, 60),
     ServerRange("General Knowledge", "Hard", 1, requiredCount),
     <<>>}

InitSeen ==
    /\ page = "landing"
    /\ now = StartTime
    /\ config = defaultState
    /\ selection = defaultState
    /\ prefetchedQuestions = NULL
    /\ prefetchPromise = FALSE
    /\ prefetchCategory = NULL
    /\ prefetchDifficulty = NULL
    /\ inflight = {}
    /\ eot_prefetched = NULL
    /\ eot_seen_questions \in SeenSeeds
    /\ pool = [key \in PoolKeys |-> NULL]
    /\ gameQuestions = <<>>
    /\ pc = "idle"
    /\ status = ""
    /\ loading = NULL
    /\ acq = NoAcquisition
    /\ held = NULL
    /\ dispatched = 0
    /\ failed = {}
    /\ games = 0
    /\ ticks = 0
    /\ game = DefaultGame
    /\ ticketGame = 0
    /\ insertLog = <<>>
    /\ lastAdd = NoAdd
    /\ lastDraw = NoDraw
    /\ seenLog = IF eot_seen_questions = NULL THEN NoSeenLog
                 ELSE [entered |-> eot_seen_questions[1].ids,
                       marked |-> eot_seen_questions[1].ids,
                       written |-> eot_seen_questions[1].timestamp]
    /\ lastMark = NoMark
    /\ lastRead = NoRead
    /\ lastTrigger = NoTrigger

seenIdle == <<page, config, selection, controllerVars, eot_prefetched, pool,
              loadingVars, games, poolCalls, lastTrigger>>

\* the ids a list marks: those that have a value, each once
MarkedIds(list) == Uniq(SelectSeq(MapId(list), LAMBDA id : id # <<>>))

\* the log of the marks after one more call at time t: a call later than 24
\* hours after the last write starts the log anew
SeenLogAfter(log, list, t) ==
    LET lapsed == t - log.written > DayMs
        entered == IF lapsed THEN <<>> ELSE log.entered
        marked == IF lapsed THEN <<>> ELSE log.marked
        kept == Range(SliceLast(entered, SEEN_KEEP))
        ids == MarkedIds(list)
    IN  [entered |-> entered \o SelectSeq(ids, LAMBDA id : id \notin kept),
         marked |-> SelectSeq(marked, LAMBDA id : id \notin Range(ids)) \o ids,
         written |-> t]

\* one call addSeenQuestionIds(questions)
SeenMark ==
    /\ lastMark.count < MaxMarks
    /\ \E batch \in SeenBatches :
        /\ eot_seen_questions' = addSeenQuestionIds(SeenAfterRead(eot_seen_questions, now),
                                                    batch, now)
        /\ seenLog' = SeenLogAfter(seenLog, batch, now)
        /\ lastMark' = [before |-> eot_seen_questions,
                        batch |-> batch,
                        time |-> now,
                        count |-> lastMark.count + 1]
    /\ lastRead' = NoRead
    /\ UNCHANGED <<game, ticketGame, now, ticks, seenIdle>>

\* one call getSeenQuestionIds()
SeenRead ==
    /\ lastRead' = [done |-> TRUE,
                    before |-> eot_seen_questions,
                    result |-> getSeenQuestionIds(eot_seen_questions, now),
                    time |-> now]
    /\ eot_seen_questions' = SeenAfterRead(eot_seen_questions, now)
    /\ UNCHANGED <<game, ticketGame, now, ticks, seenLog, lastMark, seenIdle>>

\* the clock of SpecSeen: twenty-four or twenty-five hours pass
SeenTickSteps == {DayMs, DayMs + 60 * 60 * 1000}

SeenTick ==
    /\ ticks < MaxSeenTicks
    /\ \E d \in SeenTickSteps : now' = now + d
    /\ ticks' = ticks + 1
    /\ lastRead' = NoRead
    /\ UNCHANGED <<game, ticketGame, eot_seen_questions, seenLog, lastMark, seenIdle>>

NextSeen == SeenMark \/ SeenRead \/ SeenTick

SpecSeen == InitSeen /\ [][NextSeen]_vars

SeenStored == IF eot_seen_questions = NULL THEN <<>> ELSE eot_seen_questions[1].ids

\* the marks are within the expiry window: the last write is at most 24 hours old
SeenInWindow == now - seenLog.written <= DayMs

\* C15 as claimed (seen cap): the stored list never has more than 200 ids, and
\* once 250 distinct ids have been marked within the expiry window getSeenIds()
\* returns exactly the 200 ids marked most recently.
C15_SeenCap_Claimed ==
    /\ Len(SeenStored) <= SEEN_KEEP
    /\ (SeenInWindow /\ Len(seenLog.marked) >= 250)
       => LET ids == getSeenQuestionIds(eot_seen_questions, now)
          IN  /\ Len(ids) = SEEN_KEEP
              /\ Range(ids) = Range(SliceLast(seenLog.marked, SEEN_KEEP))

\* C15 as amended: the stored list never has more than 200 ids, and within the
\* expiry window getSeenIds() returns the ids that entered the list last, at most
\* 200 of them, in that order; an id that is marked again while it is stored
\* keeps its place and is dropped as if it had not been marked again.
C15_SeenCap ==
    /\ Len(SeenStored) <= SEEN_KEEP
    /\ SeenInWindow
       => getSeenQuestionIds(eot_seen_questions, now)
            = SliceLast(seenLog.entered, SEEN_KEEP)
    /\ (SeenInWindow /\ Len(seenLog.entered) >= 250)
       => Len(getSeenQuestionIds(eot_seen_questions, now)) = SEEN_KEEP

\* C15's case: 250 distinct ids were marked over several calls and the oldest
\* were dropped
C15_Witness ==
    /\ SeenInWindow
    /\ lastMark.count >= 2
    /\ Cardinality(Range(seenLog.entered)) >= 250
    /\ Len(getSeenQuestionIds(eot_seen_questions, now)) = SEEN_KEEP

RecordStale(record, t) == record # NULL /\ t - record[1].timestamp > DayMs

\* C16 (seen expiry): getSeenIds returns the empty list when the stored
\* timestamp is more than 24 hours old, even if ids are stored, and that read
\* deletes the record (a record of exactly 24 hours is returned and kept); a
\* markSeen after expiry stores only the newly marked ids.
C16_SeenExpiry ==
    /\ (lastRead.done /\ RecordStale(lastRead.before, lastRead.time))
       => /\ lastRead.result = <<>>
          /\ eot_seen_questions = NULL
    /\ (lastRead.done /\ lastRead.before # NULL
            /\ ~RecordStale(lastRead.before, lastRead.time))
       => /\ lastRead.result = lastRead.before[1].ids
          /\ eot_seen_questions = lastRead.before
    /\ (lastMark.count > 0 /\ RecordStale(lastMark.before, lastMark.time)
            /\ eot_seen_questions # NULL)
       => SeenStored = MarkedIds(lastMark.batch)

\* C16's case: a markSeen found a stale record that stored ids, and stored its
\* own ids and none of the stale ones, which the read after it returns
C16_Witness ==
    /\ lastMark.count > 0
    /\ RecordStale(lastMark.before, lastMark.time)
    /\ lastMark.before[1].ids # <<>>
    /\ SeenStored # <<>>
    /\ Range(SeenStored) \cap Range(lastMark.before[1].ids) = {}
    /\ lastRead.done
    /\ lastRead.result = SeenStored

\* the last markSeen call found a record that had not expired
MarkOnLiveRecord ==
    /\ lastMark.count > 0
    /\ lastMark.before # NULL
    /\ ~RecordStale(lastMark.before, lastMark.time)
    /\ eot_seen_questions # NULL

\* C17 (markSeen resets the window): after a markSeen on a non-expired record
\* the record carries the time of that call, and for 24 hours from then
\* getSeenIds() returns the stored ids, the ones stored before the call among
\* them (all of them unless the cap of 200 dropped the oldest), however long
\* ago they were first marked.
C17_WindowReset ==
    MarkOnLiveRecord
    => /\ eot_seen_questions[1].timestamp = lastMark.time
       /\ now - lastMark.time <= DayMs
          => LET ids == getSeenQuestionIds(eot_seen_questions, now)
                 old == lastMark.before[1].ids
             IN  /\ ids = SeenStored
                 /\ Range(old) \cap Range(SeenStored) \subseteq Range(ids)
                 /\ Len(old) + Len(MarkedIds(lastMark.batch)) <= SEEN_KEEP
                    => Range(old) \subseteq Range(ids)
       /\ now - lastMark.time > DayMs
          => getSeenQuestionIds(eot_seen_questions, now) = <<>>

\* C17's case: ids written more than 24 hours ago are still returned, because a
\* markSeen within their window wrote the record again
C17_Witness ==
    /\ MarkOnLiveRecord
    /\ lastMark.before[1].ids # <<>>
    /\ lastMark.before[1].timestamp < lastMark.time
    /\ now - lastMark.before[1].timestamp > DayMs
    /\ now - lastMark.time <= DayMs
    /\ Range(lastMark.before[1].ids)
         \subseteq Range(getSeenQuestionIds(eot_seen_questions, now))

----------------------------------------------------------------------------
(* The end of an acquisition *)

\* initLoading has its final set: it awaits storeQuestions, or is past it
FinalSetObtained == AcquisitionRan /\ page = "loading" /\ pc \in {"storing", "done"}

\* C18 (seen before stored): once an acquisition has its final set, by any of
\* the three tiers, every question of the set has an id and getSeenIds()
\* contains it; this is so already while the per-game store is still empty, and
\* so whenever the store holds the set.
C18_SeenBeforeStore ==
    /\ FinalSetObtained
       => /\ <<>> \notin IdsOf(acq.final)
          /\ IdsOf(acq.final) \subseteq Range(getSeenQuestionIds(eot_seen_questions, now))
    /\ (AcquisitionRan /\ page = "loading" /\ pc = "storing")
       => DOMAIN gameQuestions = {}
    /\ (AcquisitionRan /\ page = "loading" /\ pc \in {"start", "fetching", "error"})
       => DOMAIN gameQuestions = {}

\* C18's case: the final set of ten came from the remote generator, partly
\* without ids, over an unexpired seen record; it is marked and not yet stored
C18_Witness ==
    /\ FinalSetObtained
    /\ pc = "storing"
    /\ acq.tier = "remote"
    /\ Len(acq.final) = requiredCount
    /\ acq.seenIds # <<>>
    /\ \E i \in 1..Len(acq.final) : acq.final[i]._id = generateQuestionId(acq.final[i])

\* C19 (per-game store): after every successful acquisition the store holds
\* exactly the final set, its k-th question under key k, and getQuestion finds
\* nothing under any other key, whatever a previous game had stored.
C19_GameStoreExact ==
    AcquisitionSucceeded
    => /\ DOMAIN gameQuestions = 1..Len(acq.final)
       /\ \A round \in 1..(requiredCount + 1) :
            getQuestion(gameQuestions, round)
              = IF round <= Len(acq.final)
                THEN Some(WithRound(acq.final[round], round))
                ELSE NULL

\* C19's case: the previous game had stored more rounds than the new final set has
C19_Witness ==
    /\ AcquisitionSucceeded
    /\ games = 2
    /\ Len(acq.final) < requiredCount
    /\ DOMAIN acq.store0 = 1..requiredCount
    /\ getQuestion(gameQuestions, requiredCount) = NULL

\* ---------------------------------------------------------------------------
\* The prefetch controller of the setup page on its own
\* ---------------------------------------------------------------------------

MaxTriggers == 3

\* the seen-question record found when the setup page loads: none, a live one,
\* one that has expired
PrefetchSeeds ==
    {NULL,
     Some([ids |-> MapId(StoredList(defaultState.category, defaultState.difficulty, 1, 2)),
           timestamp |-> StartTime - DayMs]),
     Some([ids |-> MapId(StoredList(defaultState.category, defaultState.difficulty, 1, 1)),
           timestamp |-> StartTime - DayMs - 1])}

\* where the controller's own fetch stands: its request is unanswered, its
\* answer was a list, or neither
PrefetchPhase ==
    IF prefetchedQuestions # NULL THEN "ready"
    ELSE IF prefetchPromise /\ (\E r \in inflight : r.seq = dispatched) THEN "fetching"
    ELSE IF prefetchPromise THEN "failed"
    ELSE "none"

\* the setup page after initSetup: the prefetch for the default selection is out
InitPrefetch ==
    /\ page = "setup"
    /\ now = StartTime
    /\ config = defaultState
    /\ selection = defaultState
    /\ \E seed \in PrefetchSeeds :
        LET fresh == [prefetchedQuestions |-> NULL, prefetchPromise |-> FALSE,
                      prefetchCategory |-> NULL, prefetchDifficulty |-> NULL,
                      inflight |-> {}, held |-> NULL, dispatched |-> 0,
                      eot_seen_questions |-> seed]
            ctl == prefetchQuestions(fresh, defaultState.category,
                                     defaultState.difficulty, StartTime)
        IN /\ prefetchedQuestions = ctl.prefetchedQuestions
           /\ prefetchPromise = ctl.prefetchPromise
           /\ prefetchCategory = ctl.prefetchCategory
           /\ prefetchDifficulty = ctl.prefetchDifficulty
           /\ inflight = ctl.inflight
           /\ held = ctl.held
           /\ dispatched = ctl.dispatched
           /\ eot_seen_questions = ctl.eot_seen_questions
    /\ failed = {}
    /\ eot_prefetched = NULL
    /\ pool = [key \in PoolKeys |-> NULL]
    /\ gameQuestions = <<>>
    /\ pc = "idle"
    /\ status = ""
    /\ loading = NULL
    /\ acq = NoAcquisition
    /\ games = 0
    /\ ticks = 0
    /\ game = DefaultGame
    /\ ticketGame = 0
    /\ insertLog = <<>>
    /\ lastAdd = NoAdd
    /\ lastDraw = NoDraw
    /\ seenLog = NoSeenLog
    /\ lastMark = NoMark
    /\ lastRead = NoRead
    /\ lastTrigger = [category |-> defaultState.category,
                      difficulty |-> defaultState.difficulty,
                      count |-> 1, phase |-> "none", dispatched |-> 0]

\* a call of prefetchQuestions with any pair of the two selects, the pair of the
\* last call included
PrefetchTrigger ==
    /\ page = "setup"
    /\ lastTrigger.count < MaxTriggers
    /\ \E c \in CategorySet, d \in DifficultySet :
        /\ selection' = [category |-> c, difficulty |-> d]
        /\ SetController(prefetchQuestions(Controller, c, d, now))
        /\ lastTrigger' = [category |-> c, difficulty |-> d,
                           count |-> lastTrigger.count + 1,
                           phase |-> PrefetchPhase,
                           dispatched |-> dispatched]
    /\ UNCHANGED <<game, ticketGame, page, now, config, eot_prefetched, pool, loadingVars, games,
                   ticks, failed, poolCalls, seenCalls>>

NextPrefetch ==
    \/ PrefetchTrigger
    \/ PrefetchResponse

SpecPrefetch == InitPrefetch /\ [][NextPrefetch]_vars

\* the trigger taken by this step names the pair the controller already has
TriggerForSamePair ==
    /\ lastTrigger'.count = lastTrigger.count + 1
    /\ prefetchCategory = Some(lastTrigger'.category)
    /\ prefetchDifficulty = Some(lastTrigger'.difficulty)

\* C20: a prefetch trigger for the pair of the prefetch that is fetching or ready
\* issues no remote request (nothing is dispatched, nothing joins the requests
\* in flight, the seen list is not read) and leaves the settings, the pending
\* promise and the held result as they were
C20_Coalescing ==
    [][(TriggerForSamePair /\ PrefetchPhase \in {"fetching", "ready"})
        => UNCHANGED <<prefetchedQuestions, prefetchPromise, prefetchCategory,
                       prefetchDifficulty, inflight, held, dispatched,
                       eot_seen_questions>>]_vars

\* a second or later trigger found a ready result for its own pair and
\* dispatched nothing
C20_Witness ==
    /\ lastTrigger.count >= 2
    /\ lastTrigger.phase = "ready"
    /\ prefetchCategory = Some(lastTrigger.category)
    /\ prefetchDifficulty = Some(lastTrigger.difficulty)
    /\ lastTrigger.dispatched = dispatched
    /\ prefetchedQuestions # NULL

\* ---------------------------------------------------------------------------
\* The hand-off from the setup page to the loading page
\* ---------------------------------------------------------------------------

\* the request dispatched last, the one for the current settings, ended in a
\* transport failure or an error payload
PrefetchFailed == page = "setup" /\ dispatched \in failed

\* C21: when the prefetch for the current settings has ended in failure the
\* controller holds no result, no request goes out until the next trigger, the
\* start click writes no hand-off ticket, and the acquisition that follows finds
\* the hand-off item as the setup page found it
C21_FailedPrefetch ==
    [][PrefetchFailed
        => /\ prefetchedQuestions = NULL
           /\ (dispatched' # dispatched => (selection' # selection \/ page' # page))
           /\ (page' = "loading" => eot_prefetched' = eot_prefetched)]_vars

\* the ticket the acquisition found in the hand-off storage
TicketFound == acq.ticket # NULL

\* C22: a ticket is the final set only if the draw of step 1 returned fewer than
\* 10 questions, the ticket's category and difficulty are the game's, it holds at
\* least 10 questions and it is less than 5 minutes old
C22_TicketConditions ==
    (AcquisitionRan /\ acq.tier = "prefetch")
    => /\ Len(acq.drawn) < 10
       /\ TicketFound
       /\ acq.ticket[1].category = acq.category
       /\ acq.ticket[1].difficulty = acq.difficulty
       /\ Len(acq.ticket[1].questions) >= 10
       /\ acq.ticketTime - acq.ticket[1].timestamp < 5 * 60 * 1000
       /\ Len(acq.final) = Len(acq.ticket[1].questions)

\* step 1 drew fewer than 10 and a fresh ticket for the game's settings became
\* the final set
C22_Witness ==
    /\ AcquisitionHasFinalSet
    /\ acq.tier = "prefetch"
    /\ Len(acq.drawn) < 10
    /\ Len(acq.final) >= 10

\* the step is the run of initLoading through STEP 1 and STEP 2
RunsSteps1And2 == page = "loading" /\ pc = "start" /\ pc' # "start"

\* the step writes the hand-off item
WritesTicket == eot_prefetched' # eot_prefetched /\ eot_prefetched' # NULL

\* C23: a ticket read by step 2 is gone from the hand-off storage afterwards,
\* matched or not, and a held result is written to the hand-off storage by one
\* step only, the start click that drops it from the controller; so no second
\* acquisition finds a result that one acquisition has read
C23_TicketConsumed ==
    [][/\ (RunsSteps1And2 /\ Len(acq'.drawn) < requiredCount /\ eot_prefetched # NULL)
            => eot_prefetched' = NULL
       /\ (RunsSteps1And2 /\ acq'.tier = "prefetch")
            => eot_prefetched' = NULL
       /\ WritesTicket
            => /\ page = "setup" /\ page' = "loading"
               /\ prefetchedQuestions # NULL
               /\ eot_prefetched'[1].questions = prefetchedQuestions[1]
               /\ prefetchedQuestions' = NULL]_vars

\* step 2 read a ticket that did not match, went on to step 3, and the storage
\* holds no ticket
C23_Witness ==
    /\ page = "loading"
    /\ acq.tier = "remote"
    /\ TicketFound
    /\ Len(acq.drawn) < requiredCount
    /\ eot_prefetched = NULL

\* an acquisition whose final set is the ticket's
TicketTier == AcquisitionHasFinalSet /\ acq.tier = "prefetch"

\* C24: when step 2 accepts a ticket, the pool entry of the game's category and
\* difficulty holds afterwards every question of the accepted set that it did
\* not store before, and the whole set whenever the old entry and the new
\* questions together stay within 100
C24_TicketWarmsPool ==
    TicketTier
    => LET before == StoredIds(acq.pool0, acq.category, acq.difficulty)
           after == StoredIds(pool, acq.category, acq.difficulty)
           old == acq.pool0[getPoolKey(acq.category, acq.difficulty)]
           oldLen == IF old = NULL THEN 0 ELSE Len(old[1].questions)
       IN  /\ IdsOf(acq.final) \ before \subseteq after
           /\ oldLen + Cardinality(IdsOf(acq.final) \ before) <= MAX_SIZE
                => IdsOf(acq.final) \subseteq after
           /\ Cardinality(after) <= MAX_SIZE
           /\ pool[getPoolKey(acq.category, acq.difficulty)][1].lastUpdated = acq.ticketTime

\* a ticket was accepted over an entry that already stored questions, and its
\* questions are in the entry
C24_Witness ==
    /\ TicketTier
    /\ StoredIds(acq.pool0, acq.category, acq.difficulty) # {}
    /\ IdsOf(acq.final) \subseteq StoredIds(pool, acq.category, acq.difficulty)
    /\ ~(IdsOf(acq.final) \subseteq StoredIds(acq.pool0, acq.category, acq.difficulty))

\* ---------------------------------------------------------------------------
\* Pool entries of several settings
\* ---------------------------------------------------------------------------

MaxKeyAdds == 3

\* values the two selects may carry, some containing the "_" of getPoolKey
KeyCategories == {"Pop", "Pop_Culture"}
KeyDifficulties == {"Hard", "Culture_Hard"}

KeyPoolKeys == {getPoolKey(c, d) : c \in KeyCategories, d \in KeyDifficulties}

KeyBatches ==
    {StoredList(defaultState.category, defaultState.difficulty, 1, 2),
     StoredList(defaultState.category, defaultState.difficulty, 2, 4)}

InitKeys ==
    /\ page = "landing"
    /\ now = StartTime
    /\ config = defaultState
    /\ selection = defaultState
    /\ prefetchedQuestions = NULL
    /\ prefetchPromise = FALSE
    /\ prefetchCategory = NULL
    /\ prefetchDifficulty = NULL
    /\ inflight = {}
    /\ eot_prefetched = NULL
    /\ eot_seen_questions = NULL
    /\ pool = [key \in KeyPoolKeys |-> NULL]
    /\ gameQuestions = <<>>
    /\ pc = "idle"
    /\ status = ""
    /\ loading = NULL
    /\ acq = NoAcquisition
    /\ held = NULL
    /\ dispatched = 0
    /\ failed = {}
    /\ games = 0
    /\ ticks = 0
    /\ game = DefaultGame
    /\ ticketGame = 0
    /\ insertLog = <<>>
    /\ lastAdd = NoAdd
    /\ NoHistory

\* a game with settings (c, d) whose questions are added to the pool:
\* addQuestionsToPool(state.config.category, state.config.difficulty, batch)
KeyAdd ==
    /\ games < MaxKeyAdds
    /\ \E c \in KeyCategories, d \in KeyDifficulties, batch \in KeyBatches :
        /\ config' = [category |-> c, difficulty |-> d]
        /\ pool' = addQuestionsToPool(pool, c, d, batch, now).pool
    /\ games' = games + 1
    /\ UNCHANGED <<game, ticketGame, page, now, selection, controllerVars, eot_prefetched,
                   eot_seen_questions, gameQuestions, pc, status, loading, acq,
                   ticks, history>>

\* an hour passes
KeyTick ==
    /\ ticks < MaxTicks
    /\ now' = now + 60 * 60 * 1000
    /\ ticks' = ticks + 1
    /\ UNCHANGED <<game, ticketGame, page, config, selection, controllerVars, eot_prefetched,
                   eot_seen_questions, pool, loadingVars, games, history>>

NextKeys == KeyAdd \/ KeyTick

SpecKeys == InitKeys /\ [][NextKeys]_vars

FaultKinds == {"rejected", "thrown"}

FaultMessage == "The database connection is closing."

\* the operations of initLoading before STEP 3 that can fail
RunFaults == {"none", "open", "clear", "poolRead", "ticketMergeRead", "ticketMergeSave"}

\* the hand-off items the loading page may find
FaultTickets ==
    {NULL,
     Some([questions |-> TakeFrom(defaultState.category, defaultState.difficulty,
                                  1, requiredCount, <<>>),
           category |-> defaultState.category,
           difficulty |-> defaultState.difficulty,
           timestamp |-> StartTime])}

\* the per-game store the loading page may find: empty, or an earlier game's
FaultStores ==
    {<<>>, storeQuestions(<<>>, StoredList(defaultState.category,
                                          defaultState.difficulty, 21, 30))}

\* the loading page right after the start click
InitFault ==
    /\ page = "loading"
    /\ now = StartTime
    /\ config = defaultState
    /\ selection = defaultState
    /\ prefetchedQuestions = NULL
    /\ prefetchPromise = FALSE
    /\ prefetchCategory = NULL
    /\ prefetchDifficulty = NULL
    /\ inflight = {}
    /\ eot_prefetched \in FaultTickets
    /\ eot_seen_questions = NULL
    /\ pool \in PoolSnapshots
    /\ gameQuestions \in FaultStores
    /\ pc = "start"
    /\ status = "Consulting the Oracle..."
    /\ loading = NULL
    /\ acq = NoAcquisition
    /\ held = NULL
    /\ dispatched = 0
    /\ failed = {}
    /\ games = 1
    /\ ticks = 0
    /\ game = [DefaultGame EXCEPT !.players = NewPlayers]
    /\ ticketGame = IF eot_prefetched = NULL THEN 0 ELSE games
    /\ insertLog = <<>>
    /\ lastAdd = NoAdd
    /\ NoHistory

\* what the catch block of initLoading leaves behind for a rejection value:
\* reject() and reject(undefined) make error.message throw inside the catch
\* block, after clearInterval and before status.textContent is assigned
CatchOutcome(kind, shown) ==
    IF kind = "thrown"
    THEN [pc |-> "error", status |-> "Error: " \o FaultMessage]
    ELSE [pc |-> "crashed", status |-> shown]

\* initLoading from its start to the first await of the network when the
\* operation named by fault fails
LoadingOutcomeWithFault(base, fault, kind) ==
    LET seenRead == SeenAfterRead(eot_seen_questions, now)
        raw == eot_prefetched[1].questions
        caught == CatchOutcome(kind, status)
    IN  CASE fault = "none" -> base
          [] fault \in {"open", "clear"} ->
                \* await initDB() and await clearGameQuestions() precede the try
                [base EXCEPT !.found = FALSE, !.tier = "none", !.questions = <<>>,
                             !.drawn = <<>>, !.seenIds = <<>>,
                             !.pool = pool, !.eot_prefetched = eot_prefetched,
                             !.eot_seen_questions = eot_seen_questions,
                             !.gameQuestions = gameQuestions,
                             !.status = status, !.pc = "rejected"]
          [] fault = "poolRead" ->
                [base EXCEPT !.found = FALSE, !.tier = "none", !.questions = <<>>,
                             !.drawn = <<>>,
                             !.pool = pool, !.eot_prefetched = eot_prefetched,
                             !.eot_seen_questions = seenRead,
                             !.status = caught.status, !.pc = caught.pc]
          [] fault = "ticketMergeRead" ->
                \* the inner catch of STEP 2: questions is assigned already
                [base EXCEPT !.questions = raw, !.pool = pool,
                             !.eot_seen_questions = addSeenQuestionIds(seenRead, raw, now)]
          [] fault = "ticketMergeSave" ->
                [base EXCEPT !.pool = pool]

FaultyRun ==
    /\ page = "loading"
    /\ pc = "start"
    /\ \E k \in 1..NumShuffles, fault \in RunFaults, kind \in FaultKinds :
        \E base \in {LoadingOutcome(k)} :
        /\ fault \in {"ticketMergeRead", "ticketMergeSave"} => base.tier = "prefetch"
        /\ fault \in {"none", "open", "clear", "ticketMergeRead", "ticketMergeSave"}
             => kind = "rejected"
        /\ \E r \in {LoadingOutcomeWithFault(base, fault, kind)} :
               /\ pool' = r.pool
               /\ eot_prefetched' = r.eot_prefetched
               /\ eot_seen_questions' = r.eot_seen_questions
               /\ gameQuestions' = r.gameQuestions
               /\ status' = r.status
               /\ pc' = r.pc
               /\ loading' = IF r.pc \in {"storing", "fetching"}
                             THEN Some([seenIds |-> r.seenIds,
                                        category |-> r.category,
                                        difficulty |-> r.difficulty,
                                        questions |-> r.questions])
                             ELSE NULL
               /\ acq' = [tier |-> r.tier,
                          final |-> r.questions,
                          remoteCalls |-> IF r.pc = "fetching" THEN 1 ELSE 0,
                          seenIds |-> r.seenIds,
                          pool0 |-> pool,
                          seen0 |-> eot_seen_questions,
                          drawn |-> r.drawn,
                          drawTime |-> now,
                          ticket |-> eot_prefetched,
                          ticketTime |-> now,
                          answer |-> NULL,
                          category |-> r.category,
                          difficulty |-> r.difficulty,
                          store0 |-> gameQuestions,
                          fault |-> fault]
    /\ UNCHANGED <<game, ticketGame, page, now, config, selection, controllerVars, games, ticks, history>>

\* initLoading from the response of STEP 3 on, when addQuestionsToPool may fail
FaultyResponse ==
    /\ page = "loading"
    /\ pc = "fetching"
    /\ \E answer \in RemoteAnswers(LoadingRequest), fault \in {"none", "remoteMerge"},
          kind \in FaultKinds :
        /\ fault = "remoteMerge" => answer.kind = "list"
        /\ fault = "none" => kind = "rejected"
        /\ LET r == ResponseOutcome(answer)
               caught == CatchOutcome(kind, status)
           IN  IF fault = "none"
               THEN /\ pc' = r.pc
                    /\ status' = r.status
                    /\ pool' = r.pool
                    /\ eot_seen_questions' = r.eot_seen_questions
                    /\ acq' = [acq EXCEPT !.final = r.questions, !.answer = Some(answer)]
                    /\ loading' = IF r.pc = "storing"
                                  THEN Some([loading[1] EXCEPT !.questions = r.questions])
                                  ELSE NULL
               ELSE /\ pc' = caught.pc
                    /\ status' = caught.status
                    /\ acq' = [acq EXCEPT !.answer = Some(answer), !.fault = fault]
                    /\ loading' = NULL
                    /\ UNCHANGED <<pool, eot_seen_questions>>
    /\ UNCHANGED <<game, ticketGame, page, now, config, selection, controllerVars, eot_prefetched,
                   gameQuestions, games, ticks, history>>

\* await storeQuestions(questions), when the transaction may fail
FaultyStore ==
    /\ page = "loading"
    /\ pc = "storing"
    /\ \E fault \in {"none", "store"}, kind \in FaultKinds :
        /\ fault = "none" => kind = "rejected"
        /\ IF fault = "none"
           THEN /\ gameQuestions' = storeQuestions(gameQuestions, loading[1].questions)
                /\ pc' = "done"
                /\ UNCHANGED <<status, acq>>
           ELSE /\ pc' = CatchOutcome(kind, status).pc
                /\ status' = CatchOutcome(kind, status).status
                /\ acq' = [acq EXCEPT !.fault = fault]
                /\ UNCHANGED gameQuestions
    /\ loading' = NULL
    /\ UNCHANGED <<game, ticketGame, page, now, config, selection, controllerVars, eot_prefetched,
                   eot_seen_questions, pool, games, ticks, history>>

NextFault ==
    \/ FaultyRun
    \/ FaultyResponse
    \/ FaultyStore
    \/ NavigateToGame

SpecFault == InitFault /\ [][NextFault]_vars

\* an operation on IndexedDB has failed during this acquisition
StoreFailed == acq.fault # "none"

\* the textual error state: the status line reads "Error: ..." and stays
ErrorShown == pc = "error" /\ status = "Error: " \o FaultMessage

\* C26: after a failure of the durable store at any point of the acquisition the
\* game is not started and the loading page shows the textual error state
C26_StoreFailureHalts ==
    StoreFailed => (page = "loading" /\ ErrorShown)

\* the part of C26 about navigation alone: no game after a failure
C26_NoGameAfterFailure ==
    StoreFailed => page # "game"

\* ---------------------------------------------------------------------------
\* Generated ids
\* ---------------------------------------------------------------------------

MaxIdAdds == 2

\* question texts: "Q?" and "q?"
IdTexts == {<<81, 63>>, <<113, 63>>}

\* option objects: {A: "x", B: "y"} and the same entries inserted in the other
\* order
IdOptions ==
    {<< <<<<65>>, <<120>>>>, <<<<66>>, <<121>>>> >>,
     << <<<<66>>, <<121>>>>, <<<<65>>, <<120>>>> >>}

\* questions that arrive without an _id
IdQuestions ==
    {[_id |-> <<>>, question |-> text, options |-> options, correct |-> correct] :
        text \in IdTexts, options \in IdOptions, correct \in {<<65>>, <<66>>}}

InitIds ==
    /\ page = "landing"
    /\ now = StartTime
    /\ config = defaultState
    /\ selection = defaultState
    /\ prefetchedQuestions = NULL
    /\ prefetchPromise = FALSE
    /\ prefetchCategory = NULL
    /\ prefetchDifficulty = NULL
    /\ inflight = {}
    /\ eot_prefetched = NULL
    /\ eot_seen_questions = NULL
    /\ pool = [key \in PoolKeys |-> NULL]
    /\ gameQuestions = <<>>
    /\ pc = "idle"
    /\ status = ""
    /\ loading = NULL
    /\ acq = NoAcquisition
    /\ held = NULL
    /\ dispatched = 0
    /\ failed = {}
    /\ games = 0
    /\ ticks = 0
    /\ game = DefaultGame
    /\ ticketGame = 0
    /\ insertLog = <<>>
    /\ lastAdd = NoAdd
    /\ NoHistory

\* addQuestionsToPool(category, difficulty, [q1, q2]) for two questions without id
IdAdd ==
    /\ lastAdd.count < MaxIdAdds
    /\ \E q1 \in IdQuestions, q2 \in IdQuestions :
        LET r == addQuestionsToPool(pool, PoolCategory, PoolDifficulty, <<q1, q2>>, now)
        IN  /\ pool' = r.pool
            /\ lastAdd' = [before |-> PoolQuestions,
                           batch |-> <<q1, q2>>,
                           repeated |-> FALSE,
                           count |-> lastAdd.count + 1,
                           entry |-> PoolEntry,
                           time |-> now]
    /\ UNCHANGED <<game, ticketGame, page, now, config, selection, controllerVars, eot_prefetched,
                   eot_seen_questions, loadingVars, games, ticks, insertLog,
                   lastDraw, seenCalls, lastTrigger>>

NextIds == IdAdd

SpecIds == InitIds /\ [][NextIds]_vars

\* the two questions have the same text and the same serialized options
SameContent(q1, q2) ==
    /\ q1.question = q2.question
    /\ JSONstringify(q1.options) = JSONstringify(q2.options)

\* the stored questions that carry the content of q
StoredWithContent(q) ==
    {i \in 1..Len(PoolQuestions) : SameContent(PoolQuestions[i], q)}

MaxLoads == 2          \* loads of /game explored: the first and one reload
MaxReloadRound == 1    \* rounds in which the reload is explored
MaxWrong == 1          \* clicks on a wrong option explored per game

\* the n-th question of a game: options {A: "x", B: "y"}, correct answer A
GameQuestion(n) ==
    [_id |-> <<103>> \o Digits3(n),
     question |-> <<71>> \o Digits3(n),
     options |-> << <<<<65>>, <<120>>>>, <<<<66>>, <<121>>>> >>,
     correct |-> <<65>>]

\* the per-game stores the game page may find: 10 questions, or the 9 of a
\* short answer of the remote generator
GameStores ==
    {storeQuestions(<<>>, [n \in 1..len |-> GameQuestion(n)]) : len \in {9, totalRounds}}

\* Object.keys(opts)
Keys(options) == {options[i][1] : i \in DOMAIN options}

\* the token the players click: the highest that carries a listener
TokenPicks(buttons) == {v \in buttons : \A w \in buttons : w <= v}

\* player.tokens.splice(player.tokens.indexOf(confidence), 1) when the index
\* is > -1; confidence is null or a token value
RemoveToken(tokens, confidence) ==
    IF confidence = NULL \/ ~(\E i \in DOMAIN tokens : tokens[i] = confidence[1])
    THEN tokens
    ELSE LET v == confidence[1]
             k == CHOOSE i \in DOMAIN tokens :
                    tokens[i] = v /\ \A j \in 1..(i - 1) : tokens[j] # v
         IN  [i \in 1..(Len(tokens) - 1) |-> IF i < k THEN tokens[i] ELSE tokens[i + 1]]

\* setupTurn
setupTurn(g) ==
    [g EXCEPT !.confirmEnabled = FALSE,
              !.currentTurnSelection = NoSelection,
              !.tokenButtons = Range(g.players[g.currentPlayerIndex + 1].tokens)]

\* loadRound with displayQuestion: a missing question is thrown and caught
\* before displayQuestion, and the widgets stay as they are
loadRound(g, store) ==
    LET g1 == [g EXCEPT !.popup = FALSE,
                        !.playerAnswers = [i \in 1..NumPlayers |-> NULL],
                        !.currentPlayerIndex = 0]
        question == getQuestion(store, g.currentRound)
    IN  IF question = NULL THEN g1
        ELSE setupTurn([g1 EXCEPT !.currentQuestion = question,
                                  !.optionButtons = Keys(question[1].options)])

\* revealRoundResults
revealRoundResults(g) ==
    LET correct == g.currentQuestion[1].correct
    IN  [g EXCEPT !.players = [i \in 1..NumPlayers |->
                                  IF g.playerAnswers[i][1].option = Some(correct)
                                  THEN [g.players[i] EXCEPT !.score =
                                           @ + g.playerAnswers[i][1].confidence[1]]
                                  ELSE g.players[i]],
                  !.popup = TRUE,
                  !.reveals = [@ EXCEPT ![g.currentRound] = @ + 1]]

\* the game page right after the loading page has navigated to it
InitGame ==
    /\ page = "game"
    /\ now = StartTime
    /\ config = defaultState
    /\ selection = defaultState
    /\ prefetchedQuestions = NULL
    /\ prefetchPromise = FALSE
    /\ prefetchCategory = NULL
    /\ prefetchDifficulty = NULL
    /\ inflight = {}
    /\ eot_prefetched = NULL
    /\ eot_seen_questions = NULL
    /\ pool = [key \in PoolKeys |-> NULL]
    /\ gameQuestions \in GameStores
    /\ pc = "idle"
    /\ status = ""
    /\ loading = NULL
    /\ acq = NoAcquisition
    /\ held = NULL
    /\ dispatched = 0
    /\ failed = {}
    /\ games = 1
    /\ ticks = 0
    /\ game = [DefaultGame EXCEPT !.players = NewPlayers]
    /\ ticketGame = 0
    /\ insertLog = <<>>
    /\ lastAdd = NoAdd
    /\ NoHistory

gameIdle == <<now, ticketGame, config, selection, controllerVars, eot_prefetched,
              eot_seen_questions, pool, loadingVars, games, ticks, history>>

\* a load of /game: the script starts with fresh variables and the widgets of
\* the template (a confirm button that is enabled or not), state comes from
\* localStorage, initGame runs loadRound
GameLoad ==
    /\ page = "game"
    /\ game.loads < MaxLoads
    /\ game.loads > 0 => game.currentRound <= MaxReloadRound
    /\ \E enabled \in BOOLEAN :
        game' = loadRound([game EXCEPT !.currentTurnSelection = NoSelection,
                                       !.confirmEnabled = enabled,
                                       !.tokenButtons = {},
                                       !.optionButtons = {},
                                       !.popup = FALSE,
                                       !.loads = @ + 1],
                          gameQuestions)
    /\ UNCHANGED <<page, gameIdle>>

\* the click listener of an option button: selectOption, checkTurnReady
OptionClick ==
    /\ page = "game"
    /\ game.loads > 0
    /\ ~game.popup
    /\ game.currentTurnSelection.option = NULL
    /\ \E option \in game.optionButtons :
        LET isWrong == Some(option) # Some(game.currentQuestion[1].correct)
        IN  /\ isWrong => game.wrong < MaxWrong
            /\ game' = [game EXCEPT
                    !.currentTurnSelection.option = Some(option),
                    !.confirmEnabled = game.currentTurnSelection.confidence # NULL,
                    !.wrong = IF isWrong THEN @ + 1 ELSE @]
    /\ UNCHANGED <<page, gameIdle>>

\* the click listener of a token button
TokenClick ==
    /\ page = "game"
    /\ game.loads > 0
    /\ ~game.popup
    /\ game.currentTurnSelection.confidence = NULL
    /\ \E val \in TokenPicks(game.tokenButtons) :
        game' = [game EXCEPT
                    !.currentTurnSelection.confidence = Some(val),
                    !.confirmEnabled = game.currentTurnSelection.option # NULL]
    /\ UNCHANGED <<page, gameIdle>>

\* confirmBtn.onclick
ConfirmClick ==
    /\ page = "game"
    /\ game.loads > 0
    /\ ~game.popup
    /\ game.confirmEnabled
    /\ game.currentPlayerIndex < NumPlayers
    /\ LET i == game.currentPlayerIndex + 1
           chosen == game.currentTurnSelection
           g1 == [game EXCEPT
                    !.playerAnswers[i] = Some(chosen),
                    !.players[i].tokens = RemoveToken(@, chosen.confidence),
                    !.currentPlayerIndex = @ + 1,
                    !.wagers[i] = IF chosen.confidence = NULL THEN @
                                  ELSE Append(@, chosen.confidence[1])]
       IN  game' = IF g1.currentPlayerIndex < NumPlayers THEN setupTurn(g1)
                   ELSE revealRoundResults(g1)
    /\ UNCHANGED <<page, gameIdle>>

\* initResults: [...state.players].sort((a, b) => b.score - a.score)[0], the
\* sort being stable
Winner(players) ==
    CHOOSE i \in DOMAIN players :
        \A j \in DOMAIN players :
            \/ players[i].score > players[j].score
            \/ players[i].score = players[j].score /\ i <= j

\* the test in popup.nextBtn.onclick
GameOver(currentRound) == currentRound > totalRounds

\* popup.nextBtn.onclick, and the load of /results it may lead to
NextClick ==
    /\ page = "game"
    /\ game.popup
    /\ LET g1 == [game EXCEPT !.currentRound = @ + 1]
       IN  IF GameOver(g1.currentRound)
           THEN /\ page' = "results"
                /\ game' = [g1 EXCEPT !.winner = Some(Winner(g1.players))]
           ELSE /\ page' = page
                /\ game' = loadRound(g1, gameQuestions)
    /\ UNCHANGED gameIdle

NextGame ==
    \/ GameLoad
    \/ OptionClick
    \/ TokenClick
    \/ ConfirmClick
    \/ NextClick

SpecGame == InitGame /\ [][NextGame]_vars

\* the list has no value twice
NoRepeat(list) == \A a, b \in DOMAIN list : a # b => list[a] # list[b]

Playing == page \in {"game", "results"} /\ game.loads > 0

\* C28: confidence tokens are single-use: a token value a player has confirmed
\* is gone from that player's tokens and is not confirmed by that player a
\* second time in the game
C28_TokensSingleUse ==
    Playing
    => \A i \in 1..NumPlayers :
          /\ NoRepeat(game.wagers[i])
          /\ Range(game.wagers[i]) \cap Range(game.players[i].tokens) = {}

\* the step is a reveal: the popup opens
RevealStep == page = "game" /\ ~game.popup /\ game'.popup

\* C29: a score changes only when a round is revealed, then by the token value
\* confirmed if the option confirmed is the question's correct one and not at
\* all otherwise; no score exceeds 55
C29_Scoring ==
    [][(page = "game" /\ game.loads > 0)
        => \A i \in 1..NumPlayers :
              LET before == game.players[i].score
                  after == game'.players[i].score
                  answer == game'.playerAnswers[i][1]
                  right == answer.option = Some(game'.currentQuestion[1].correct)
              IN  /\ after <= 55
                  /\ ~RevealStep => after = before
                  /\ RevealStep /\ right => after = before + answer.confidence[1]
                  /\ RevealStep /\ ~right => after = before]_vars

\* C30: while the game is played currentRound is within 1..10, no round is
\* revealed twice, the results page comes after the reveal of round 10, and
\* the winner announced has a score that no other player exceeds
C30_ResultsAfterTenRounds ==
    /\ (page = "game" /\ game.loads > 0) => game.currentRound \in 1..totalRounds
    /\ Playing => \A r \in 1..totalRounds : game.reveals[r] <= 1
    /\ page = "results"
        => /\ game.reveals[totalRounds] = 1
           /\ game.winner # NULL
           /\ \A j \in 1..NumPlayers :
                 game.players[game.winner[1]].score >= game.players[j].score

\* ---------------------------------------------------------------------------
\* Interleavings of the setup page and the acquisition that follows
\* ---------------------------------------------------------------------------

\* the question is one the remote generator produces for (category, difficulty)
GeneratedFor(q, category, difficulty) ==
    SubSeq(q.question, 1, 2) = SubSeq(ServerQuestion(category, difficulty, 1).question, 1, 2)

\* C31: every question of a ticket that the acquisition accepts at step 2 and
\* merges into the pool entry of the game's (category, difficulty) was generated
\* for that category and difficulty, and so is every question the game receives
\* from it
C31_TicketOfSameSettings ==
    acq.tier = "prefetch"
    => /\ \A i \in DOMAIN acq.ticket[1].questions :
             GeneratedFor(acq.ticket[1].questions[i], acq.category, acq.difficulty)
       /\ \A i \in DOMAIN acq.final :
             GeneratedFor(acq.final[i], acq.category, acq.difficulty)

\* the acquisition of the current game start has accepted the ticket at step 2
TicketAcceptedNow == page = "loading" /\ pc # "start" /\ acq.tier = "prefetch"

\* C32: a ticket accepted at step 2 was written by the start click that led to
\* this acquisition; a ticket that an earlier game start left in the hand-off
\* storage is never used
C32_TicketOfThisStart == TicketAcceptedNow => ticketGame = games

\* ---------------------------------------------------------------------------
\* Game page: the turns of a round
\* ---------------------------------------------------------------------------

\* the players with an answer in state.playerAnswers
Answered(g) == {i \in 1..NumPlayers : g.playerAnswers[i] # NULL}

\* C33 (turn protocol): in every round the players answer in roster order, an
\* answer is recorded only with an option and a token selected, each player
\* records exactly one answer per round, and the reveal comes only when every
\* player has answered. Counted over the game: on the game page a player has
\* recorded one answer for each round before the current one, and one more
\* when the player has answered in the current round.
C33_TurnProtocol ==
    /\ (page = "game" /\ game.loads > 0)
        => \A i \in 1..NumPlayers :
              /\ Answered(game) \in {1..k : k \in 0..NumPlayers}
              /\ game.playerAnswers[i] # NULL
                 => /\ game.playerAnswers[i][1].option # NULL
                    /\ game.playerAnswers[i][1].confidence # NULL
              /\ Len(game.wagers[i])
                    = game.currentRound - 1 + (IF i \in Answered(game) THEN 1 ELSE 0)
    /\ (page = "game" /\ game.popup) => Answered(game) = 1..NumPlayers

\* the protocol between two loads of a round: answers are recorded in roster
\* order with an option and a token selected, an answer recorded stays as it
\* is until the round is loaded again, and the reveal comes only when every
\* player has answered
TurnProtocolOfOneLoad ==
    [][(page = "game" /\ game.loads > 0)
        => /\ \A i \in 1..NumPlayers :
                (game.playerAnswers[i] = NULL /\ game'.playerAnswers[i] # NULL)
                => /\ i = game.currentPlayerIndex + 1
                   /\ Answered(game) = 1..(i - 1)
                   /\ game'.playerAnswers[i][1].option # NULL
                   /\ game'.playerAnswers[i][1].confidence # NULL
           /\ \A i \in 1..NumPlayers :
                game.playerAnswers[i] # NULL
                => game'.playerAnswers[i] \in {game.playerAnswers[i], NULL}
           /\ RevealStep => Answered(game') = 1..NumPlayers]_vars

\* a round starts: the question is shown and nobody has answered
RoundStart == page = "game" /\ game.loads > 0 /\ ~game.popup /\ Answered(game) = {}

\* a player is on turn
OnTurn ==
    /\ page = "game"
    /\ game.loads > 0
    /\ ~game.popup
    /\ game.currentPlayerIndex < NumPlayers

\* C34: at the start of round r every player holds exactly 11 - r tokens, and
\* the player on turn always holds a token, also after a reload of the game
\* page in the middle of a round or after a reveal
C34_TokensPerRound ==
    /\ RoundStart
        => \A i \in 1..NumPlayers :
              Len(game.players[i].tokens) = totalRounds + 1 - game.currentRound
    /\ OnTurn => game.players[game.currentPlayerIndex + 1].tokens # <<>>

\* ---------------------------------------------------------------------------
\* Termination of initLoading
\* ---------------------------------------------------------------------------

\* the two terminal outcomes: the game page, or the status line set by the
\* catch block of initLoading
GameReached == page = "game"
ErrorStateReached == page = "loading" /\ pc = "error"

\* initLoading awaits an operation that has not completed yet, or the timer of
\* the navigation has not fired yet: a step of initLoading is still to come
OperationPending == page = "loading" /\ pc \in {"start", "fetching", "storing", "done"}

\* C35: every acquisition terminates in exactly one of two outcomes, the
\* navigation to the game or the textual error state, when every awaited
\* operation completes by resolving or by rejecting: as long as neither outcome
\* is reached a step of initLoading is still to come, so that the loading page
\* never stays in the loading state with nothing left to run
C35_Terminates ==
    /\ GameReached \/ ErrorStateReached \/ OperationPending
    /\ ~(GameReached /\ ErrorStateReached)

====
